---- MODULE Spec2Model ----
(***************************************************************************)
(* Signature / transaction codec of the HSM signer (src/ethereum-hsm.js,   *)
(* its earlier revisions src/unnamed/part_001 and part_002, and the        *)
(* standalone verifier src/verify-signature.js).                           *)
(*                                                                         *)
(* Scaling.  The code works on secp256k1 with 32-byte scalars and Keccak   *)
(* digests.  The model keeps every step of the code but runs it on a small *)
(* curve of the same shape, y^2 = x^3 + 2 over GF(13), whose group has     *)
(* prime order 19, with 1-byte scalars and coordinates and a 2-byte        *)
(* digest.  Buffers are sequences of byte values, JavaScript strings are   *)
(* sequences of one-character strings.                                     *)
(***************************************************************************)
EXTENDS Integers, Sequences, FiniteSets, TLC

\* ------------------------------------------------------------------------
\* Sizes (scaled) and curve parameters
\* ------------------------------------------------------------------------

\* byte length of r and of s (32 in the code: sig.subarray(0, 32))
RLen == 1

\* byte length of one coordinate of the public key (32 in the code)
CoordLen == 1

\* byte length of a digest (32 for Keccak-256)
HashLen == 2

\* byte length of an address (20 in the code: hash.slice(-20))
AddrLen == 1

\* field prime and coefficient of the curve y^2 = x^3 + CurveB
CurveP == 13

CurveB == 2

\* group order (SECP256K1_N in the code) and half order (SECP256K1_N >> 1n)
SECP256K1_N == 19

SECP256K1_N_DIV_2 == SECP256K1_N \div 2

\* the multiples k*G of the generator G = (1, 4), k = 1 .. N-1, as <<x, y>>
CurvePoints ==
  << <<1, 4>>, <<2, 7>>, <<6, 7>>, <<10, 1>>, <<5, 6>>, <<4, 1>>,
     <<9, 4>>, <<3, 9>>, <<12, 1>>, <<12, 12>>, <<3, 4>>, <<9, 9>>,
     <<4, 12>>, <<5, 7>>, <<10, 12>>, <<6, 6>>, <<2, 6>>, <<1, 9>> >>

\* ------------------------------------------------------------------------
\* Bounds of the exploration
\* ------------------------------------------------------------------------

\* private keys held by the device and by the public-key object: 1 .. MaxKey
MaxKey == 2

\* longest message, in code points
MaxMsgLen == 1

\* ------------------------------------------------------------------------
\* Buffers, integers and hex strings
\* ------------------------------------------------------------------------

RECURSIVE BytesToInt(_)
\* big-endian value of a buffer (BigInt('0x' + buf.toString('hex')))
BytesToInt(bs) ==
  IF bs = <<>> THEN 0
  ELSE BytesToInt(SubSeq(bs, 1, Len(bs) - 1)) * 256 + bs[Len(bs)]

\* Buffer.slice / subarray / String.slice(start, end) with clamping, 0-based
Slice(q, start, end) ==
  LET a == IF start < 0 THEN 0 ELSE IF start > Len(q) THEN Len(q) ELSE start
      b == IF end < 0 THEN 0 ELSE IF end > Len(q) THEN Len(q) ELSE end
  IN IF b <= a THEN <<>> ELSE SubSeq(q, a + 1, b)

\* buf.slice(-n): the last n bytes
SliceLast(q, n) == Slice(q, Len(q) - n, Len(q))

HexDigits ==
  <<"0", "1", "2", "3", "4", "5", "6", "7",
    "8", "9", "a", "b", "c", "d", "e", "f">>

UpperHexDigits == <<"A", "B", "C", "D", "E", "F">>

\* value of a hex digit character, -1 for any other character
HexVal(c) ==
  IF \E i \in 1..16 : HexDigits[i] = c
  THEN (CHOOSE i \in 1..16 : HexDigits[i] = c) - 1
  ELSE IF \E i \in 1..6 : UpperHexDigits[i] = c
       THEN (CHOOSE i \in 1..6 : UpperHexDigits[i] = c) + 9
       ELSE -1

RECURSIVE BufToHex(_)
\* buf.toString('hex')
BufToHex(bs) ==
  IF bs = <<>> THEN <<>>
  ELSE <<HexDigits[(bs[1] \div 16) + 1], HexDigits[(bs[1] % 16) + 1]>>
       \o BufToHex(Tail(bs))

RECURSIVE BufferFromHex(_)
\* Buffer.from(str, 'hex'): decodes digit pairs, stops at the first pair
\* that is not two hex digits, drops a trailing single digit
BufferFromHex(str) ==
  IF Len(str) < 2 THEN <<>>
  ELSE IF HexVal(str[1]) < 0 \/ HexVal(str[2]) < 0 THEN <<>>
  ELSE <<HexVal(str[1]) * 16 + HexVal(str[2])>>
       \o BufferFromHex(SubSeq(str, 3, Len(str)))

RECURSIVE NumToString16(_)
\* n.toString(16) for n >= 0
NumToString16(n) ==
  IF n < 16 THEN <<HexDigits[n + 1]>>
  ELSE NumToString16(n \div 16) \o <<HexDigits[(n % 16) + 1]>>

RECURSIVE PadStart(_, _, _)
\* str.padStart(n, c)
PadStart(str, n, c) ==
  IF Len(str) >= n THEN str ELSE PadStart(<<c>> \o str, n, c)

\* ------------------------------------------------------------------------
\* Hash primitive
\* ------------------------------------------------------------------------

RECURSIVE KeccakAbsorb(_, _)
KeccakAbsorb(h, bs) ==
  IF bs = <<>> THEN h
  ELSE KeccakAbsorb((h * 31 + bs[1] + 1) % 65521, Tail(bs))

\* keccak256('keccak256').update(buf).digest(): a deterministic digest of
\* HashLen bytes (a scaled stand-in for Keccak-256)
keccak256Hash(buf) ==
  LET h == KeccakAbsorb(1, buf) IN <<h \div 256, h % 256>>

\* ------------------------------------------------------------------------
\* JavaScript strings: messages are sequences of code points
\* ------------------------------------------------------------------------

\* the characters messages are built from: "a" (one UTF-8 byte), e-acute
\* (two bytes) and U+1F600 (a surrogate pair, four bytes)
MessageChars == {97, 233, 128512}

RECURSIVE SeqsUpTo(_, _)
\* all sequences over S of length at most n
SeqsUpTo(S, n) ==
  IF n = 0 THEN {<<>>}
  ELSE LET shorter == SeqsUpTo(S, n - 1)
       IN shorter \cup {Append(q, c) : q \in shorter, c \in S}

Messages == SeqsUpTo(MessageChars, MaxMsgLen)

RECURSIVE StringLength(_)
\* str.length: the number of UTF-16 code units
StringLength(str) ==
  IF str = <<>> THEN 0
  ELSE (IF str[1] > 65535 THEN 2 ELSE 1) + StringLength(Tail(str))

\* UTF-8 bytes of one code point
Utf8Char(cp) ==
  IF cp < 128 THEN <<cp>>
  ELSE IF cp < 2048 THEN <<192 + (cp \div 64), 128 + (cp % 64)>>
  ELSE IF cp < 65536
       THEN <<224 + (cp \div 4096), 128 + ((cp \div 64) % 64), 128 + (cp % 64)>>
       ELSE <<240 + (cp \div 262144), 128 + ((cp \div 4096) % 64),
              128 + ((cp \div 64) % 64), 128 + (cp % 64)>>

RECURSIVE Utf8Encode(_)
\* Buffer.from(str, 'utf8')
Utf8Encode(str) ==
  IF str = <<>> THEN <<>> ELSE Utf8Char(str[1]) \o Utf8Encode(Tail(str))

RECURSIVE DecimalString(_)
\* `${n}` for a non-negative integer n, as code points
DecimalString(n) ==
  IF n < 10 THEN <<48 + n>>
  ELSE DecimalString(n \div 10) \o <<48 + (n % 10)>>

\* "\x19Ethereum Signed Message:\n"
PersonalPrefix ==
  <<25, 69, 116, 104, 101, 114, 101, 117, 109, 32, 83, 105, 103, 110, 101,
    100, 32, 77, 101, 115, 115, 97, 103, 101, 58, 10>>

\* the length token `${message.length}` placed after the prefix
LengthToken(message) == DecimalString(StringLength(message))

\* `\x19Ethereum Signed Message:\n${message.length}${message}`
PersonalMessage(message) ==
  PersonalPrefix \o LengthToken(message) \o message

\* the digest signed for a personal message
PersonalMessageHash(message) ==
  keccak256Hash(Utf8Encode(PersonalMessage(message)))

\* str.toLowerCase() on the characters that occur in hex strings
ToLowerCase(str) ==
  [i \in 1..Len(str) |->
     IF \E j \in 1..6 : UpperHexDigits[j] = str[i]
     THEN HexDigits[(CHOOSE j \in 1..6 : UpperHexDigits[j] = str[i]) + 10]
     ELSE IF str[i] = "X" THEN "x" ELSE str[i]]

\* str.toUpperCase() on the same characters (used to build inputs)
ToUpperCase(str) ==
  [i \in 1..Len(str) |->
     IF HexVal(str[i]) >= 10 THEN UpperHexDigits[HexVal(str[i]) - 9]
     ELSE str[i]]

\* the value `undefined` where a string is expected
Undefined == <<"undefined">>

\* ------------------------------------------------------------------------
\* Curve arithmetic of the libraries (secp256k1 / ethereumjs-util)
\* ------------------------------------------------------------------------

ModInv(a) == CHOOSE i \in 1..(SECP256K1_N - 1) : (a * i) % SECP256K1_N = 1

\* index k of the point k*G with abscissa x and ordinate parity par; 0 if none
PointIndex(x, par) ==
  IF \E k \in 1..(SECP256K1_N - 1) :
        CurvePoints[k][1] = x /\ CurvePoints[k][2] % 2 = par
  THEN CHOOSE k \in 1..(SECP256K1_N - 1) :
        CurvePoints[k][1] = x /\ CurvePoints[k][2] % 2 = par
  ELSE 0

\* uncompressed X || Y bytes of the point q*G
PointBytes(q) == <<CurvePoints[q][1], CurvePoints[q][2]>>

\* ECDSA public-key recovery Q = r^-1 (s R - z G); returns the index of Q,
\* or 0 when the library throws (r or s out of range, no point with
\* abscissa r, or Q at infinity)
EcdsaRecover(z, recid, r, s) ==
  IF r < 1 \/ r >= SECP256K1_N \/ s < 1 \/ s >= SECP256K1_N THEN 0
  ELSE LET kR == PointIndex(r, recid)
       IN IF kR = 0 THEN 0
          ELSE (ModInv(r) * (s * kR + SECP256K1_N - (z % SECP256K1_N)))
               % SECP256K1_N

\* setLengthLeft(buf, n) of ethereumjs-util: left-pad with zeros, or keep
\* the last n bytes
SetLengthLeft(buf, n) ==
  IF Len(buf) >= n THEN SliceLast(buf, n)
  ELSE [i \in 1..(n - Len(buf)) |-> 0] \o buf

\* ecrecover(msgHash, v, r, s) of ethereumjs-util (>= 7.1): v of 0 or 1 is
\* the recovery id itself, any other v stands for recovery id v - 27; a
\* recovery id other than 0 and 1 throws.  Result: [ok, pub].
ecrecover(msgHash, v, r, s) ==
  LET recovery == IF v = 0 \/ v = 1 THEN v ELSE v - 27
      q == EcdsaRecover(BytesToInt(msgHash), recovery,
                        BytesToInt(SetLengthLeft(r, RLen)),
                        BytesToInt(SetLengthLeft(s, RLen)))
  IN IF recovery # 0 /\ recovery # 1 THEN [ok |-> FALSE, pub |-> <<>>]
     ELSE IF q = 0 THEN [ok |-> FALSE, pub |-> <<>>]
     ELSE [ok |-> TRUE, pub |-> PointBytes(q)]

\* ------------------------------------------------------------------------
\* The device (external capability)
\* ------------------------------------------------------------------------

\* session.createSign("ECDSA", privateKey).once(hash): raw r || s of an
\* ECDSA signature under private key d with nonce k
HsmSign(d, k, hash) ==
  LET z == BytesToInt(hash) % SECP256K1_N
      r == CurvePoints[k][1] % SECP256K1_N
      s == (ModInv(k) * (z + r * d)) % SECP256K1_N
  IN <<r, s>>

\* the device never hands out a signature with r = 0 or s = 0
HsmNonceOk(d, k, hash) ==
  HsmSign(d, k, hash)[1] # 0 /\ HsmSign(d, k, hash)[2] # 0

\* publicKey.getAttribute({pointEC: null}).pointEC: the point of key q
\* wrapped as an OCTET STRING, [0x04][len][0x04][X][Y]
PointECAttribute(q) == <<4, 1 + 2 * CoordLen, 4>> \o PointBytes(q)

\* ------------------------------------------------------------------------
\* EC-point decoder
\* ------------------------------------------------------------------------

decodeEcPoint(ecPointBuffer) ==
  IF ecPointBuffer = <<>> \/ ecPointBuffer[1] # 4
  THEN [ok |-> FALSE, error |-> "Expected OCTET STRING", val |-> <<>>]
  ELSE LET len == IF Len(ecPointBuffer) >= 2 THEN ecPointBuffer[2] ELSE 0
       IN [ok |-> TRUE, error |-> "",
           val |-> Slice(ecPointBuffer, 2, 2 + len)]

\* ------------------------------------------------------------------------
\* Recovery resolver used for transactions
\* ------------------------------------------------------------------------

\* shape of what a signing operation hands back: r and s are the buffers
\* the operation worked on, rStr and sStr the '0x' strings it returns
SignValue(status, error, r, s, v, rStr, sStr, signature) ==
  [status |-> status, error |-> error, r |-> r, s |-> s, v |-> v,
   rStr |-> rStr, sStr |-> sStr, signature |-> signature]

NoSignature == SignValue("none", "", <<>>, <<>>, -1, <<>>, <<>>, <<>>)

SignError(msg) == SignValue("error", msg, <<>>, <<>>, -1, <<>>, <<>>, <<>>)

\* variant: the s of the device is passed on as it is
NormalizeS_skipped(s) == s

\* low-S normalisation of the s taken from the device
NormalizeS(s) ==
  LET sBig == BytesToInt(s)
  IN IF sBig > SECP256K1_N_DIV_2
     THEN BufferFromHex(PadStart(NumToString16(SECP256K1_N - sBig),
                                 2 * RLen, "0"))
     ELSE s

\* the loop over the candidates 0 and 1: the first candidate whose recovered
\* key equals pubXY (compared as hex strings), -1 when v stays undefined
FindRecoveryId(hash32, r, s, pubXY) ==
  LET Match(i) == LET rec == ecrecover(hash32, i, r, s)
                  IN rec.ok /\ BufToHex(rec.pub) = BufToHex(pubXY)
  IN IF Match(0) THEN 0 ELSE IF Match(1) THEN 1 ELSE -1

\* variant: the candidates are tried against the s of the device, and the
\* normalised s is returned with the recovery id found that way
signHashWithHsmAndComputeV_rawSearch(sig, ecPoint, hash32) ==
  LET r == Slice(sig, 0, RLen)
      s0 == Slice(sig, RLen, 2 * RLen)
      rawPoint == decodeEcPoint(ecPoint)
  IN IF ~rawPoint.ok THEN SignError(rawPoint.error)
     ELSE IF rawPoint.val = <<>> \/ rawPoint.val[1] # 4
     THEN SignError("Only uncompressed EC points are supported from the HSM public key.")
     ELSE LET pubXY == Slice(rawPoint.val, 1, Len(rawPoint.val))
              v == FindRecoveryId(hash32, r, s0, pubXY)
          IN IF v = -1
             THEN SignError("Could not determine recovery id (v)")
             ELSE SignValue("ok", "", r, NormalizeS(s0), v, <<>>, <<>>, <<>>)

signHashWithHsmAndComputeV(sig, ecPoint, hash32) ==
  LET r == Slice(sig, 0, RLen)
      s0 == Slice(sig, RLen, 2 * RLen)
      rawPoint == decodeEcPoint(ecPoint)
  IN IF ~rawPoint.ok THEN SignError(rawPoint.error)
     ELSE IF rawPoint.val = <<>> \/ rawPoint.val[1] # 4
     THEN SignError("Only uncompressed EC points are supported from the HSM public key.")
     ELSE LET pubXY == Slice(rawPoint.val, 1, Len(rawPoint.val))
              s == NormalizeS(s0)
              v == FindRecoveryId(hash32, r, s, pubXY)
          IN IF v = -1
             THEN SignError("Could not determine recovery id (v)")
             ELSE SignValue("ok", "", r, s, v, <<>>, <<>>, <<>>)

\* ------------------------------------------------------------------------
\* Address derivation
\* ------------------------------------------------------------------------

\* variant: the marker of the decoded point is not looked at
deriveEthereumAddress_noMarkerCheck(ecPoint) ==
  LET rawPoint == decodeEcPoint(ecPoint)
  IN IF ~rawPoint.ok
     THEN [ok |-> FALSE, error |-> rawPoint.error, address |-> <<>>]
     ELSE LET keyBytes == Slice(rawPoint.val, 1, Len(rawPoint.val))
              hash == keccak256Hash(keyBytes)
          IN [ok |-> TRUE, error |-> "",
              address |-> <<"0", "x">> \o BufToHex(SliceLast(hash, AddrLen))]

\* deriveEthereumAddress(publicKey) of ethereum-hsm.js, given the pointEC
\* attribute of the key object: [ok, error, address]
deriveEthereumAddress(ecPoint) ==
  LET rawPoint == decodeEcPoint(ecPoint)
  IN IF ~rawPoint.ok
     THEN [ok |-> FALSE, error |-> rawPoint.error, address |-> <<>>]
     ELSE IF rawPoint.val = <<>> \/ rawPoint.val[1] # 4
     THEN [ok |-> FALSE, error |-> "Only uncompressed EC points are supported",
           address |-> <<>>]
     ELSE LET keyBytes == Slice(rawPoint.val, 1, Len(rawPoint.val))
              hash == keccak256Hash(keyBytes)
          IN [ok |-> TRUE, error |-> "",
              address |-> <<"0", "x">> \o BufToHex(SliceLast(hash, AddrLen))]

\* deriveEthereumAddress of part_002 and of verify-signature.js, given the
\* raw key bytes: drops the first byte of a 65-byte key, never throws
deriveEthereumAddressRaw(rawPublicKey) ==
  LET keyBytes == IF Len(rawPublicKey) = 1 + 2 * CoordLen
                  THEN Slice(rawPublicKey, 1, Len(rawPublicKey))
                  ELSE rawPublicKey
      hash == keccak256Hash(keyBytes)
  IN <<"0", "x">> \o BufToHex(SliceLast(hash, AddrLen))

\* ------------------------------------------------------------------------
\* Personal-message signing, ethereum-hsm.js
\* ------------------------------------------------------------------------

\* variant: the accepted candidate is reported as i + 27 + 4
FindMessageV_plus4(messageHash, r, s, rawPublicKeyBytes) ==
  LET Match(i) == LET rec == ecrecover(messageHash, i, r, s)
                  IN rec.ok /\ BufToHex(rec.pub) = BufToHex(rawPublicKeyBytes)
  IN IF Match(0) THEN 0 + 27 + 4 ELSE IF Match(1) THEN 1 + 27 + 4 ELSE -1

\* the loop of signEthereumMessage over the candidates 0 and 1
FindMessageV(messageHash, r, s, rawPublicKeyBytes) ==
  LET Match(i) == LET rec == ecrecover(messageHash, i, r, s)
                  IN rec.ok /\ BufToHex(rec.pub) = BufToHex(rawPublicKeyBytes)
  IN IF Match(0) THEN 0 + 27 ELSE IF Match(1) THEN 1 + 27 ELSE -1

signEthereumMessage(signatureRS, ecPoint, message) ==
  LET messageHash == PersonalMessageHash(message)
      r == Slice(signatureRS, 0, RLen)
      s == Slice(signatureRS, RLen, 2 * RLen)
      rawPoint == decodeEcPoint(ecPoint)
  IN IF ~rawPoint.ok THEN SignError(rawPoint.error)
     ELSE IF rawPoint.val = <<>> \/ rawPoint.val[1] # 4
     THEN SignError("Only uncompressed EC points are supported from the HSM public key.")
     ELSE LET rawPublicKeyBytes == Slice(rawPoint.val, 1, Len(rawPoint.val))
              v == FindMessageV(messageHash, r, s, rawPublicKeyBytes)
          IN IF v = -1
             THEN SignError("Could not determine the correct recovery ID (v) for the signature.")
             ELSE SignValue("ok", "", r, s, v,
                            <<"0", "x">> \o BufToHex(r),
                            <<"0", "x">> \o BufToHex(s),
                            <<"0", "x">> \o BufToHex(r \o s \o <<v>>))

\* variant: the loop runs over the four recovery ids 0 .. 3
CandidatesTried_fourIds(hash, r, s, pubXY) ==
  LET Match(i) == LET rec == ecrecover(hash, i, r, s)
                  IN rec.ok /\ BufToHex(rec.pub) = BufToHex(pubXY)
  IN IF Match(0) THEN <<0>> ELSE IF Match(1) THEN <<0, 1>>
     ELSE <<0, 1, 2, 3>>

\* the candidates the loop  for (let i = 0; i < 2; i++)  hands to ecrecover,
\* in order: it stops at the first whose recovered key equals pubXY
CandidatesTried(hash, r, s, pubXY) ==
  LET Match(i) == LET rec == ecrecover(hash, i, r, s)
                  IN rec.ok /\ BufToHex(rec.pub) = BufToHex(pubXY)
  IN IF Match(0) THEN <<0>> ELSE <<0, 1>>

\* the candidates signHashWithHsmAndComputeV tries: none when it throws
\* before the loop
ResolverTries(sig, ecPoint, hash32) ==
  LET rawPoint == decodeEcPoint(ecPoint)
  IN IF ~rawPoint.ok \/ rawPoint.val = <<>> \/ rawPoint.val[1] # 4 THEN <<>>
     ELSE CandidatesTried(hash32, Slice(sig, 0, RLen),
                          NormalizeS(Slice(sig, RLen, 2 * RLen)),
                          Slice(rawPoint.val, 1, Len(rawPoint.val)))

\* the candidates signEthereumMessage tries
MessageTries(signatureRS, ecPoint, message) ==
  LET rawPoint == decodeEcPoint(ecPoint)
  IN IF ~rawPoint.ok \/ rawPoint.val = <<>> \/ rawPoint.val[1] # 4 THEN <<>>
     ELSE CandidatesTried(PersonalMessageHash(message),
                          Slice(signatureRS, 0, RLen),
                          Slice(signatureRS, RLen, 2 * RLen),
                          Slice(rawPoint.val, 1, Len(rawPoint.val)))

\* ------------------------------------------------------------------------
\* Personal-message signing, earlier revisions (part_001, part_002)
\* ------------------------------------------------------------------------

\* parseDERSignature(derSignature): fixed offsets, lengths read from the
\* buffer; an index past the end reads undefined, and a slice whose bound
\* is NaN is empty
parseDERSignature(derSignature) ==
  LET At(i) == IF i >= 0 /\ i < Len(derSignature)
               THEN derSignature[i + 1] ELSE -1
      rLength == At(4)
      r == IF rLength = -1 THEN <<>>
           ELSE Slice(derSignature, 5, 5 + rLength)
      sOffset == IF rLength = -1 THEN -1 ELSE 5 + rLength + 2
      sLength == IF sOffset = -1 THEN -1 ELSE At(sOffset)
      s == IF sLength = -1 THEN <<>>
           ELSE Slice(derSignature, sOffset + 1, sOffset + 1 + sLength)
  IN [r |-> r, s |-> s]

\* secp256k1.recover(messageHash, {r, s, v}, false): the uncompressed
\* 65-byte key 0x04 || X || Y, or a throw
Secp256k1Recover(messageHash, r, s, v) ==
  LET q == IF v # 0 /\ v # 1 THEN 0
           ELSE EcdsaRecover(BytesToInt(messageHash), v,
                             BytesToInt(r), BytesToInt(s))
  IN IF q = 0 THEN [ok |-> FALSE, pub |-> <<>>]
     ELSE [ok |-> TRUE, pub |-> <<4>> \o PointBytes(q)]

\* the wire string both earlier revisions build
LegacyWire(r, s, v) ==
  <<"0", "x">> \o BufToHex(r) \o PadStart(BufToHex(s), 2 * RLen, "0")
  \o PadStart(NumToString16(v - 27), 2, "0")

\* part_001: v starts at 27; the recovered key is wrapped in an object
\* whose getAttribute returns the key, so the pointEC read by
\* deriveEthereumAddress is missing and the derivation throws; every throw
\* inside the try sets v to 28
signEthereumMessage_part001(signature, message) ==
  LET messageHash == PersonalMessageHash(message)
      rs == parseDERSignature(signature)
      rec == Secp256k1Recover(messageHash, rs.r, rs.s, 27 - 27)
      recoveredAddress == deriveEthereumAddress(<<>>)
      v == IF ~rec.ok \/ ~recoveredAddress.ok THEN 28
           ELSE IF recoveredAddress.address = <<>> THEN 28 ELSE 27
  IN SignValue("ok", "", rs.r, rs.s, v,
               <<"0", "x">> \o BufToHex(rs.r),
               <<"0", "x">> \o BufToHex(rs.s),
               LegacyWire(rs.r, rs.s, v))

\* part_002: v is 27 when recovery with candidate 0 returns any key at all,
\* 28 when it throws
signEthereumMessage_part002(signature, message) ==
  LET messageHash == PersonalMessageHash(message)
      rs == parseDERSignature(signature)
      rec == Secp256k1Recover(messageHash, rs.r, rs.s, 27 - 27)
      v == IF ~rec.ok THEN 28
           ELSE IF deriveEthereumAddressRaw(rec.pub) = <<>> THEN 28 ELSE 27
  IN SignValue("ok", "", rs.r, rs.s, v,
               <<"0", "x">> \o BufToHex(rs.r),
               <<"0", "x">> \o BufToHex(rs.s),
               LegacyWire(rs.r, rs.s, v))

\* ------------------------------------------------------------------------
\* Verification, ethereum-hsm.js
\* ------------------------------------------------------------------------

\* byte length of the wire signature r || s || v (65 in the code)
SigLen == 2 * RLen + 1

\* isHexString of ethereumjs-util: 0x followed by hex digits only
IsHexString(str) ==
  /\ Len(str) >= 2
  /\ str[1] = "0" /\ str[2] = "x"
  /\ \A i \in 3..Len(str) : HexVal(str[i]) >= 0

\* fromRpcSig(sig) of ethereumjs-util: [ok, r, s, v]; ok is FALSE when it
\* throws (not a 0x hex string, or fewer than 64 bytes).  A 64-byte input
\* is read as the compact form, a v below 27 is raised by 27.
fromRpcSig(sig) ==
  IF sig = Undefined \/ ~IsHexString(sig)
  THEN [ok |-> FALSE, r |-> <<>>, s |-> <<>>, v |-> 0]
  ELSE LET hex == Slice(sig, 2, Len(sig))
           buf == BufferFromHex(IF Len(hex) % 2 = 1 THEN <<"0">> \o hex
                                ELSE hex)
           Raise(v) == IF v < 27 THEN v + 27 ELSE v
       IN IF Len(buf) >= SigLen
          THEN [ok |-> TRUE, r |-> Slice(buf, 0, RLen),
                s |-> Slice(buf, RLen, 2 * RLen),
                v |-> Raise(BytesToInt(Slice(buf, 2 * RLen, Len(buf))))]
          ELSE IF Len(buf) = SigLen - 1
          THEN LET s == Slice(buf, RLen, 2 * RLen)
               IN [ok |-> TRUE, r |-> Slice(buf, 0, RLen),
                   s |-> <<s[1] % 128>> \o Tail(s),
                   v |-> Raise(s[1] \div 128)]
          ELSE [ok |-> FALSE, r |-> <<>>, s |-> <<>>, v |-> 0]

\* the body of the try block: [threw, value]
VerifyBody(message, signature, expectedAddress) ==
  LET messageHash == PersonalMessageHash(message)
      sig == fromRpcSig(signature)
      publicKey == ecrecover(messageHash, sig.v, sig.r, sig.s)
      recoveredAddress ==
        <<"0", "x">>
        \o SliceLast(BufToHex(keccak256Hash(publicKey.pub)), 2 * AddrLen)
  IN IF ~sig.ok THEN [threw |-> TRUE, value |-> FALSE]
     ELSE IF ~publicKey.ok THEN [threw |-> TRUE, value |-> FALSE]
     ELSE IF expectedAddress = Undefined THEN [threw |-> TRUE, value |-> FALSE]
     ELSE [threw |-> FALSE,
           value |-> ToLowerCase(recoveredAddress)
                     = ToLowerCase(expectedAddress)]

\* variant: no catch, a throw in the body leaves the function
CatchReturnFalse_rethrow(body) ==
  [raised |-> body.threw, value |-> body.value]

\* try { ... } catch (error) { return false }: [raised, value]
CatchReturnFalse(body) ==
  [raised |-> FALSE, value |-> IF body.threw THEN FALSE ELSE body.value]

verifyEthereumSignature(message, signature, expectedAddress) ==
  CatchReturnFalse(VerifyBody(message, signature, expectedAddress))

\* ------------------------------------------------------------------------
\* Verification, verify-signature.js
\* ------------------------------------------------------------------------

StartsWith0x(str) == Len(str) >= 2 /\ str[1] = "0" /\ str[2] = "x"

\* the nested try blocks: candidate 0 first, candidate 1 only when
\* candidate 0 throws; the v parsed from the signature is only logged
StandaloneRecover(messageHash, r, s) ==
  LET first == Secp256k1Recover(messageHash, r, s, 0)
  IN IF first.ok THEN first ELSE Secp256k1Recover(messageHash, r, s, 1)

StandaloneVerifyBody(message, signature, expectedAddress) ==
  LET messageHash == PersonalMessageHash(message)
      r == BufferFromHex(Slice(signature, 2, 2 + 2 * RLen))
      s == BufferFromHex(Slice(signature, 2 + 2 * RLen, 2 + 4 * RLen))
      publicKey == StandaloneRecover(messageHash, r, s)
      recoveredAddress == deriveEthereumAddressRaw(publicKey.pub)
  IN IF signature = Undefined THEN [threw |-> TRUE, value |-> FALSE]
     ELSE IF ~StartsWith0x(signature) \/ Len(signature) # 2 + 2 * SigLen
     THEN [threw |-> TRUE, value |-> FALSE]
     ELSE IF ~publicKey.ok THEN [threw |-> TRUE, value |-> FALSE]
     ELSE IF expectedAddress = Undefined THEN [threw |-> TRUE, value |-> FALSE]
     ELSE [threw |-> FALSE,
           value |-> ToLowerCase(recoveredAddress)
                     = ToLowerCase(expectedAddress)]

verifyEthereumSignature_standalone(message, signature, expectedAddress) ==
  CatchReturnFalse(StandaloneVerifyBody(message, signature, expectedAddress))

\* ------------------------------------------------------------------------
\* Transaction signing helpers
\* ------------------------------------------------------------------------

\* a JavaScript value handed to the helpers: t is what typeof / Array.isArray
\* / Buffer.isBuffer tell about it ("undefined" stands for undefined and
\* null), n the number or bigint, str the string, buf the bytes of a Buffer,
\* items the elements of an array
JsValue(t, n, str, buf, items) ==
  [t |-> t, n |-> n, str |-> str, buf |-> buf, items |-> items]

JsUndefined == JsValue("undefined", 0, <<>>, <<>>, <<>>)

JsString(str) == JsValue("string", 0, str, <<>>, <<>>)

JsNumber(n) == JsValue("number", n, <<>>, <<>>, <<>>)

JsBuffer(buf) == JsValue("buffer", 0, <<>>, buf, <<>>)

JsArray(items) == JsValue("array", 0, <<>>, <<>>, items)

JsObject == JsValue("object", 0, <<>>, <<>>, <<>>)

\* what a helper hands back: the buffer, or the fact that it threw
Returned(buf) == [threw |-> FALSE, buf |-> buf]

Threw == [threw |-> TRUE, buf |-> <<>>]

RECURSIVE BigIntBytes_littleEndian(_)
\* variant: the bytes are left in the order the loop pushed them
BigIntBytes_littleEndian(bn) ==
  IF bn <= 0 THEN <<>>
  ELSE <<bn % 256>> \o BigIntBytes_littleEndian(bn \div 256)

RECURSIVE BigIntBytes(_)
\* the loop  while (bn > 0n) { bytes.push(bn & 0xff); bn >>= 8 }  followed by
\* reverse(): nothing for bn <= 0
BigIntBytes(bn) ==
  IF bn <= 0 THEN <<>> ELSE BigIntBytes(bn \div 256) \o <<bn % 256>>

RECURSIVE SkipZeros(_)
\* buf.subarray(i) for the first i with buf[i] # 0, empty if there is none
SkipZeros(buf) ==
  IF buf = <<>> THEN <<>>
  ELSE IF buf[1] = 0 THEN SkipZeros(Tail(buf)) ELSE buf

\* variant: the number zero becomes one zero byte
toBufferFromHexOrNumber_zeroByte(value) ==
  IF value.t = "undefined" THEN Returned(<<>>)
  ELSE IF value.t = "string"
  THEN LET hex == IF StartsWith0x(value.str)
                  THEN Slice(value.str, 2, Len(value.str)) ELSE value.str
       IN IF Len(hex) = 0 THEN Returned(<<>>)
          ELSE LET buf == BufferFromHex(IF Len(hex) % 2 = 0 THEN hex
                                        ELSE <<"0">> \o hex)
               IN Returned(SkipZeros(buf))
  ELSE IF value.t = "number"
  THEN IF value.n = 0 THEN Returned(<<0>>) ELSE Returned(BigIntBytes(value.n))
  ELSE IF value.t = "buffer" THEN Returned(value.buf)
  ELSE Threw

toBufferFromHexOrNumber(value) ==
  IF value.t = "undefined" THEN Returned(<<>>)
  ELSE IF value.t = "string"
  THEN LET hex == IF StartsWith0x(value.str)
                  THEN Slice(value.str, 2, Len(value.str)) ELSE value.str
       IN IF Len(hex) = 0 THEN Returned(<<>>)
          ELSE LET buf == BufferFromHex(IF Len(hex) % 2 = 0 THEN hex
                                        ELSE <<"0">> \o hex)
               IN Returned(SkipZeros(buf))
  ELSE IF value.t = "number"
  THEN IF value.n = 0 THEN Returned(<<>>) ELSE Returned(BigIntBytes(value.n))
  ELSE IF value.t = "buffer" THEN Returned(value.buf)
  ELSE Threw

\* variant: the short form is used up to and including 56 bytes
encodeLength_shortUpTo56(len, offset) ==
  IF len <= 56 THEN <<len + offset>>
  ELSE LET lenBuf == toBufferFromHexOrNumber(JsNumber(len)).buf
       IN <<offset + 55 + Len(lenBuf)>> \o lenBuf

encodeLength(len, offset) ==
  IF len < 56 THEN <<len + offset>>
  ELSE LET lenBuf == toBufferFromHexOrNumber(JsNumber(len)).buf
       IN <<offset + 55 + Len(lenBuf)>> \o lenBuf

RECURSIVE BufferConcat(_)
\* Buffer.concat(list)
BufferConcat(list) ==
  IF list = <<>> THEN <<>> ELSE Head(list) \o BufferConcat(Tail(list))

RECURSIVE rlpEncode(_)
rlpEncode(input) ==
  IF input.t = "array"
  THEN LET encodedItems == [i \in 1..Len(input.items) |->
                              rlpEncode(input.items[i])]
       IN IF \E i \in 1..Len(input.items) : encodedItems[i].threw
          THEN Threw
          ELSE LET payload == BufferConcat([i \in 1..Len(input.items) |->
                                              encodedItems[i].buf])
               IN Returned(encodeLength(Len(payload), 192) \o payload)
  ELSE LET buf == toBufferFromHexOrNumber(input)
       IN IF buf.threw THEN Threw
          ELSE IF Len(buf.buf) = 1 /\ buf.buf[1] < 128 THEN buf
          ELSE Returned(encodeLength(Len(buf.buf), 128) \o buf.buf)

\* stripLeadingZeros(buf): the buffer itself when its first byte is not 0
stripLeadingZeros(buf) ==
  IF buf = <<>> \/ buf[1] # 0 THEN buf ELSE SkipZeros(buf)

\* a ?? b
Nullish(a, b) == IF a.t = "undefined" THEN b ELSE a

\* the truthiness of a value as  value ? x : y  tests it
Truthy(value) ==
  CASE value.t = "undefined" -> FALSE
    [] value.t = "string" -> value.str # <<>>
    [] value.t = "number" -> value.n # 0
    [] OTHER -> TRUE

RECURSIVE HexDigitsToNum(_)
HexDigitsToNum(str) ==
  IF str = <<>> THEN 0
  ELSE HexDigitsToNum(SubSeq(str, 1, Len(str) - 1)) * 16 + HexVal(str[Len(str)])

\* BigInt(x) for a number and for a '0x' string of hex digits, parseInt(x, 16)
\* for such a string: [ok, n]; ok is FALSE where BigInt throws and where
\* parseInt gives NaN
ParseQuantity(value) ==
  IF value.t = "number" THEN [ok |-> TRUE, n |-> value.n]
  ELSE IF value.t = "string" /\ StartsWith0x(value.str)
          /\ Len(value.str) > 2
          /\ \A i \in 3..Len(value.str) : HexVal(value.str[i]) >= 0
  THEN [ok |-> TRUE, n |-> HexDigitsToNum(Slice(value.str, 2, Len(value.str)))]
  ELSE [ok |-> FALSE, n |-> 0]

\* params.chainId ?? 11155111
DefaultChainId == 11155111

\* variant: 27 + recovery id, the v of a transaction without chain id
Eip155V_legacy27(chainId, v) == 27 + v

\* BigInt(chainId) * 2n + 35n + BigInt(v)
Eip155V(chainId, v) == chainId * 2 + 35 + v

\* ------------------------------------------------------------------------
\* State
\* ------------------------------------------------------------------------

VARIABLES
  privKey,      \* private key held by the device (scalar d)
  pubAttr,      \* pointEC attribute of the public-key object handed in
  op,           \* "idle", or the operation that ran last
  message,      \* message of the last personal-message signing
  hash32,       \* digest handed to the device by the last signing operation
  rawSig,       \* r || s as the device returned it
  signResult,   \* what the last signing operation returned or threw
  wire,         \* the signature string a verifier is given
  verifyResult, \* what the last verification returned
  derived,      \* what the last address derivation returned or threw
  tx,           \* the signAndSendEtherTransaction call in progress
  rpc,          \* JSON-RPC requests sent and not yet answered
  txLog,        \* the steps of the call in progress, in the order taken
  codec,        \* the last call of a pure helper: its input and what it gave
  device,       \* what the running operation has asked of the device so far
  safe,         \* the confirmTransaction call in progress
  calls,        \* overlapping signAndSendEtherTransaction calls of one sender
  chain         \* the node: transaction count of the sender, broadcasts seen

vars == <<privKey, pubAttr, op, message, hash32, rawSig, signResult, wire,
          verifyResult, derived, tx, rpc, txLog, codec, device, safe, calls,
          chain>>

txVars == <<tx, rpc, txLog>>

otherVars == <<codec, safe, calls, chain>>

sigVars == <<privKey, pubAttr, op, message, hash32, rawSig, signResult, wire,
             verifyResult, derived>>

\* digests handed to the recovery resolver: one per residue modulo N
HashInputs == {<<0, h>> : h \in 0..(SECP256K1_N - 1)}

Nonces == 1..(SECP256K1_N - 1)

NoWire == [sig |-> <<>>, from |-> "none", tamper |-> "none", byte |-> 0,
           bit |-> 0]

NoVerify == [by |-> "none", raised |-> FALSE, value |-> FALSE,
             address |-> <<>>]

SignOps == {"signEthereumMessage", "signEthereumMessage_part001",
            "signEthereumMessage_part002"}

\* ------------------------------------------------------------------------
\* Inputs and values of signAndSendEtherTransaction
\* ------------------------------------------------------------------------

Str0x(hex) == <<"0", "x">> \o hex

\* the sender the callers pass as params.from
TxSender == JsString(Str0x(<<"5", "a">>))

\* chain ids a caller passes: 0 .. MaxChainId
MaxChainId == 1

ChainIds == 0..MaxChainId

TxParams ==
  [from : {TxSender, JsUndefined},
   to : {JsString(Str0x(<<"0", "0">>)), JsString(Str0x(<<"2", "b">>))},
   valueWei : {JsUndefined, JsString(Str0x(<<"0", "d", "e", "0">>))},
   gasLimit : {JsUndefined, JsString(Str0x(<<"5", "2", "0", "8">>))},
   data : {JsUndefined, JsString(Str0x(<<"0", "0", "0", "1">>))},
   chainId : {JsUndefined} \cup {JsNumber(c) : c \in ChainIds}]

NoParams ==
  [from |-> JsUndefined, to |-> JsUndefined, valueWei |-> JsUndefined,
   gasLimit |-> JsUndefined, data |-> JsUndefined, chainId |-> JsUndefined]

\* what the JSON-RPC endpoint answers
RpcError == [error |-> TRUE, result |-> <<>>]

RpcResult(str) == [error |-> FALSE, result |-> str]

GasPriceAnswers == {RpcError, RpcResult(Str0x(<<"3", "e", "8">>))}

NonceAnswers ==
  {RpcError, RpcResult(Str0x(<<"0">>)), RpcResult(Str0x(<<"9">>))}

\* errors the device raises from sign.once
DeviceErrors == {"CKR_DEVICE_ERROR"}

\* JSON.stringify of a request parameter: null for undefined
JsonParam(value) == IF value.t = "undefined" THEN <<"null">> ELSE value.str

Request(method, params) == [method |-> method, params |-> params]

NoTx ==
  [pc |-> "idle", params |-> NoParams, chainId |-> 0, gasPriceWei |-> 0,
   nonce |-> 0, unsignedForSig |-> <<>>, msgHash |-> <<>>, sig |-> <<>>,
   signed |-> NoSignature, vFinal |-> 0, signedTx |-> <<>>,
   rawTxHex |-> <<>>, error |-> "", result |-> <<>>]

TxThrew(t, msg) == [t EXCEPT !.pc = "threw", !.error = msg]

\* variant: the tuple hashed before EIP-155, without chain id
UnsignedTuple_sixFields(nonce, gasPriceWei, params, chainId) ==
  <<toBufferFromHexOrNumber(JsNumber(nonce)).buf,
    toBufferFromHexOrNumber(JsNumber(gasPriceWei)).buf,
    toBufferFromHexOrNumber(params.gasLimit).buf,
    IF Truthy(params.to) THEN toBufferFromHexOrNumber(params.to).buf
    ELSE <<>>,
    toBufferFromHexOrNumber(Nullish(params.valueWei, JsNumber(0))).buf,
    IF Truthy(params.data) THEN toBufferFromHexOrNumber(params.data).buf
    ELSE <<>> >>

\* nonceBuf .. chainIdBuf and the array unsignedForSig
UnsignedTuple(nonce, gasPriceWei, params, chainId) ==
  <<toBufferFromHexOrNumber(JsNumber(nonce)).buf,
    toBufferFromHexOrNumber(JsNumber(gasPriceWei)).buf,
    toBufferFromHexOrNumber(params.gasLimit).buf,
    IF Truthy(params.to) THEN toBufferFromHexOrNumber(params.to).buf
    ELSE <<>>,
    toBufferFromHexOrNumber(Nullish(params.valueWei, JsNumber(0))).buf,
    IF Truthy(params.data) THEN toBufferFromHexOrNumber(params.data).buf
    ELSE <<>>,
    toBufferFromHexOrNumber(JsNumber(chainId)).buf,
    <<>>,
    <<>> >>

\* variant: the chain id stays in the seventh field
SignedTuple_keepsChainId(unsignedForSig, vFinal, r, s) ==
  SubSeq(unsignedForSig, 1, 7) \o <<stripLeadingZeros(r), stripLeadingZeros(s)>>

\* the array signed
SignedTuple(unsignedForSig, vFinal, r, s) ==
  SubSeq(unsignedForSig, 1, 6)
  \o <<toBufferFromHexOrNumber(JsNumber(vFinal)).buf,
       stripLeadingZeros(r), stripLeadingZeros(s)>>

\* rlpEncode of an array of buffers
RlpOfBuffers(bufs) ==
  rlpEncode(JsArray([i \in 1..Len(bufs) |-> JsBuffer(bufs[i])])).buf

\* nothing asked of the device: no sign call, no recovery candidate tried
NoDevice == [signs |-> 0, tries |-> <<>>]

\* no transaction fetched yet; a fetched one carries what the Safe
\* Transaction Service reports of it
NoTransaction ==
  [found |-> FALSE, isExecuted |-> FALSE, hasConfirmations |-> FALSE,
   confirmations |-> <<>>, confirmationsRequired |-> 0]

\* what confirmTransaction resolves to: reasons and signature are absent
\* from some of the objects it returns
NoSafeResult ==
  [success |-> FALSE, error |-> "", hasReasons |-> FALSE, reasons |-> <<>>,
   hasSignature |-> FALSE, signature |-> <<>>]

\* the confirmer between calls: signLog holds what the signer was asked to
\* sign and returned, submitted what was handed to apiKit.confirmTransaction
NoSafe ==
  [pc |-> "idle", safeTxHash |-> <<>>, transaction |-> NoTransaction,
   signLog |-> <<>>, submitted |-> <<>>, result |-> NoSafeResult]

\* the callers that invoke signAndSendEtherTransaction for the same sender
Callers == {1, 2}

\* one invocation: its position, its locals, and the callers whose
\* invocations were in flight at some time during this one
NoCall ==
  [pc |-> "idle", params |-> NoParams, gasPriceWei |-> 0, nonce |-> 0,
   rawTxHex |-> <<>>, error |-> "", result |-> <<>>, with |-> {}]

NoCalls == [i \in Callers |-> NoCall]

\* the sender's account as the endpoint sees it: the number of its mined
\* transactions and the accepted transactions still pending
NoChain == [count |-> 0, pool |-> {}]

NoCodec == [fn |-> "none", input |-> JsUndefined, out |-> Returned(<<>>)]

NoDerived == [by |-> "none", threw |-> FALSE, error |-> "", address |-> <<>>]

\* first bytes of a reported point that are not the OCTET STRING tag
WrongTags == {3}

\* what the key object reports as its pointEC attribute: the DER octet
\* string of a point, or such a string under another tag
ReportedPoints ==
  {PointECAttribute(q) : q \in 1..MaxKey}
  \cup {[PointECAttribute(q) EXCEPT ![1] = t] : q \in 1..MaxKey, t \in WrongTags}

Init ==
  /\ privKey \in 1..MaxKey
  /\ pubAttr \in ReportedPoints
  /\ op = "idle"
  /\ message = <<>>
  /\ hash32 = <<>>
  /\ rawSig = <<>>
  /\ signResult = NoSignature
  /\ wire = NoWire
  /\ verifyResult = NoVerify
  /\ derived = NoDerived
  /\ tx = NoTx
  /\ rpc = <<>>
  /\ txLog = <<>>
  /\ codec = NoCodec
  /\ device = NoDevice
  /\ safe = NoSafe
  /\ calls = NoCalls
  /\ chain = NoChain

\* signHashWithHsmAndComputeV(session, privateKey, publicKey, hash32)
SignHash(h, k) ==
  /\ op = "idle"
  /\ HsmNonceOk(privKey, k, h)
  /\ op' = "signHashWithHsmAndComputeV"
  /\ hash32' = h
  /\ rawSig' = HsmSign(privKey, k, h)
  /\ signResult' = signHashWithHsmAndComputeV(rawSig', pubAttr, h)
  /\ UNCHANGED <<txVars, derived>>
  /\ UNCHANGED otherVars
  /\ device' = [signs |-> 1, tries |-> ResolverTries(rawSig', pubAttr, h)]
  /\ UNCHANGED <<privKey, pubAttr, message, wire, verifyResult>>

\* signEthereumMessage(session, privateKey, publicKey, message)
SignMessage(m, k) ==
  /\ op = "idle"
  /\ HsmNonceOk(privKey, k, PersonalMessageHash(m))
  /\ op' = "signEthereumMessage"
  /\ message' = m
  /\ hash32' = PersonalMessageHash(m)
  /\ rawSig' = HsmSign(privKey, k, hash32')
  /\ signResult' = signEthereumMessage(rawSig', pubAttr, m)
  /\ wire' = [NoWire EXCEPT !.sig = signResult'.signature, !.from = op']
  /\ UNCHANGED <<txVars, derived>>
  /\ UNCHANGED otherVars
  /\ device' = [signs |-> 1, tries |-> MessageTries(rawSig', pubAttr, m)]
  /\ UNCHANGED <<privKey, pubAttr, verifyResult>>

\* signEthereumMessage(session, privateKey, message) of part_001
SignMessage_part001(m, k) ==
  /\ op = "idle"
  /\ HsmNonceOk(privKey, k, PersonalMessageHash(m))
  /\ op' = "signEthereumMessage_part001"
  /\ message' = m
  /\ hash32' = PersonalMessageHash(m)
  /\ rawSig' = HsmSign(privKey, k, hash32')
  /\ signResult' = signEthereumMessage_part001(rawSig', m)
  /\ wire' = [NoWire EXCEPT !.sig = signResult'.signature, !.from = op']
  /\ UNCHANGED <<txVars, derived>>
  /\ UNCHANGED otherVars
  /\ device' = [signs |-> 1, tries |-> <<0>>]
  /\ UNCHANGED <<privKey, pubAttr, verifyResult>>

\* signEthereumMessage(session, privateKey, message) of part_002
SignMessage_part002(m, k) ==
  /\ op = "idle"
  /\ HsmNonceOk(privKey, k, PersonalMessageHash(m))
  /\ op' = "signEthereumMessage_part002"
  /\ message' = m
  /\ hash32' = PersonalMessageHash(m)
  /\ rawSig' = HsmSign(privKey, k, hash32')
  /\ signResult' = signEthereumMessage_part002(rawSig', m)
  /\ wire' = [NoWire EXCEPT !.sig = signResult'.signature, !.from = op']
  /\ UNCHANGED <<txVars, derived>>
  /\ UNCHANGED otherVars
  /\ device' = [signs |-> 1, tries |-> <<0>>]
  /\ UNCHANGED <<privKey, pubAttr, verifyResult>>

\* one bit of a byte inverted
FlipBitOf(byte, b) ==
  IF (byte \div (2 ^ b)) % 2 = 1 THEN byte - 2 ^ b ELSE byte + 2 ^ b

\* the bytes of a wire string after its 0x
WireBytes(sig) == BufferFromHex(Slice(sig, 2, Len(sig)))

\* a caller inverts bit b of byte j of the signature before verifying it.
\* The inverted bits are those of s and v: what recovery returns for another
\* s or v follows from the group law, while for another r it depends on
\* which abscissas the curve happens to have.
FlipBit(j, b) ==
  /\ op = "signEthereumMessage"
  /\ signResult.status = "ok"
  /\ j <= Len(WireBytes(wire.sig))
  /\ op' = "tamper"
  /\ wire' = [sig |-> <<"0", "x">>
                      \o BufToHex([WireBytes(wire.sig) EXCEPT
                                     ![j] = FlipBitOf(@, b)]),
              from |-> wire.from, tamper |-> "flip", byte |-> j, bit |-> b]
  /\ UNCHANGED <<txVars, derived>>
  /\ UNCHANGED otherVars
  /\ UNCHANGED device
  /\ UNCHANGED <<privKey, pubAttr, message, hash32, rawSig, signResult,
                 verifyResult>>

MalformKinds == {"truncate1", "truncate2", "no0x", "nonhex", "extend",
                 "odd", "upper", "undefined"}

Malformed(sig, kind) ==
  CASE kind = "truncate1" -> Slice(sig, 0, Len(sig) - 2)
    [] kind = "truncate2" -> Slice(sig, 0, Len(sig) - 4)
    [] kind = "no0x" -> Slice(sig, 2, Len(sig))
    [] kind = "nonhex" -> Slice(sig, 0, Len(sig) - 1) \o <<"g">>
    [] kind = "extend" -> sig \o <<"0", "0">>
    [] kind = "odd" -> Slice(sig, 0, Len(sig) - 1)
    [] kind = "upper" -> <<"0", "x">> \o ToUpperCase(Slice(sig, 2, Len(sig)))
    [] kind = "undefined" -> Undefined

\* a caller hands over a signature string of another shape
Malform(kind) ==
  /\ op = "signEthereumMessage"
  /\ signResult.status = "ok"
  /\ op' = "tamper"
  /\ wire' = [sig |-> Malformed(wire.sig, kind), from |-> wire.from,
              tamper |-> kind, byte |-> 0, bit |-> 0]
  /\ UNCHANGED <<txVars, derived>>
  /\ UNCHANGED otherVars
  /\ UNCHANGED device
  /\ UNCHANGED <<privKey, pubAttr, message, hash32, rawSig, signResult,
                 verifyResult>>

\* the address of the key object, as deriveEthereumAddress reports it
SignerAddress == deriveEthereumAddress(pubAttr).address

AddressKinds == {"signer", "undefined"}

ExpectedAddress(kind) ==
  CASE kind = "signer" -> SignerAddress
    [] kind = "undefined" -> Undefined

CanVerify == (op \in SignOps /\ signResult.status = "ok") \/ op = "tamper"

\* verifyEthereumSignature(message, signature, expectedAddress),
\* ethereum-hsm.js
Verify(a) ==
  /\ CanVerify
  /\ op' = "verifyEthereumSignature"
  /\ verifyResult' =
       LET res == verifyEthereumSignature(message, wire.sig,
                                          ExpectedAddress(a))
       IN [by |-> "main", raised |-> res.raised, value |-> res.value,
           address |-> ExpectedAddress(a)]
  /\ UNCHANGED <<txVars, derived>>
  /\ UNCHANGED otherVars
  /\ UNCHANGED device
  /\ UNCHANGED <<privKey, pubAttr, message, hash32, rawSig, signResult, wire>>

\* verifyEthereumSignature(message, signature, expectedAddress),
\* verify-signature.js
VerifyStandalone(a) ==
  /\ CanVerify
  /\ op' = "verifyEthereumSignature_standalone"
  /\ verifyResult' =
       LET res == verifyEthereumSignature_standalone(message, wire.sig,
                                                     ExpectedAddress(a))
       IN [by |-> "standalone", raised |-> res.raised, value |-> res.value,
           address |-> ExpectedAddress(a)]
  /\ UNCHANGED <<txVars, derived>>
  /\ UNCHANGED otherVars
  /\ UNCHANGED device
  /\ UNCHANGED <<privKey, pubAttr, message, hash32, rawSig, signResult, wire>>

\* the call has returned; the service waits for the next request
Release ==
  /\ op # "idle"
  /\ op' = "idle"
  /\ message' = <<>>
  /\ hash32' = <<>>
  /\ rawSig' = <<>>
  /\ signResult' = NoSignature
  /\ wire' = NoWire
  /\ verifyResult' = NoVerify
  /\ derived' = NoDerived
  /\ UNCHANGED txVars
  /\ UNCHANGED otherVars
  /\ device' = NoDevice
  /\ UNCHANGED <<privKey, pubAttr>>

\* ------------------------------------------------------------------------
\* Address derivation as an operation of the service
\* ------------------------------------------------------------------------

\* deriveEthereumAddress(publicKey), ethereum-hsm.js
DeriveAddress ==
  /\ op = "idle"
  /\ op' = "deriveEthereumAddress"
  /\ derived' = LET res == deriveEthereumAddress(pubAttr)
                IN [by |-> "main", threw |-> ~res.ok, error |-> res.error,
                    address |-> res.address]
  /\ UNCHANGED txVars
  /\ UNCHANGED otherVars
  /\ UNCHANGED device
  /\ UNCHANGED <<privKey, pubAttr, message, hash32, rawSig, signResult, wire,
                 verifyResult>>

\* deriveEthereumAddress(publicKey) of part_002: hashes the bytes the key
\* object reports, without decoding them
DeriveAddress_part002 ==
  /\ op = "idle"
  /\ op' = "deriveEthereumAddress_part002"
  /\ derived' = [by |-> "part002", threw |-> FALSE, error |-> "",
                 address |-> deriveEthereumAddressRaw(pubAttr)]
  /\ UNCHANGED txVars
  /\ UNCHANGED otherVars
  /\ UNCHANGED device
  /\ UNCHANGED <<privKey, pubAttr, message, hash32, rawSig, signResult, wire,
                 verifyResult>>

Next ==
  \/ \E h \in HashInputs, k \in Nonces : SignHash(h, k)
  \/ \E m \in Messages, k \in Nonces : SignMessage(m, k)
  \/ \E m \in Messages, k \in Nonces : SignMessage_part001(m, k)
  \/ \E m \in Messages, k \in Nonces : SignMessage_part002(m, k)
  \/ \E j \in (RLen + 1)..SigLen, b \in 0..7 : FlipBit(j, b)
  \/ \E kind \in MalformKinds : Malform(kind)
  \/ \E a \in AddressKinds : Verify(a)
  \/ \E a \in AddressKinds : VerifyStandalone(a)
  \/ DeriveAddress
  \/ DeriveAddress_part002
  \/ Release

Spec == Init /\ [][Next]_vars

\* ------------------------------------------------------------------------
\* signAndSendEtherTransaction(session, privateKey, publicKey, params)
\* ------------------------------------------------------------------------

\* the transaction hash a node answers a broadcast with
BroadcastAnswers(rawTxHex) ==
  {RpcError,
   RpcResult(Str0x(BufToHex(keccak256Hash(WireBytes(rawTxHex)))))}

\* variant: both lookups are requested at once
TxStart_bothLookups(p) ==
  /\ op = "idle"
  /\ tx.pc = "idle"
  /\ tx' = [NoTx EXCEPT
              !.pc = "awaitGasPrice", !.params = p,
              !.chainId = ParseQuantity(
                            Nullish(p.chainId, JsNumber(DefaultChainId))).n]
  /\ rpc' = <<Request("eth_gasPrice", <<>>),
              Request("eth_getTransactionCount",
                      <<JsonParam(p.from), <<"latest">> >>)>>
  /\ txLog' = <<"eth_gasPrice", "eth_getTransactionCount">>
  /\ UNCHANGED otherVars
  /\ UNCHANGED device
  /\ UNCHANGED <<privKey, pubAttr, op, message, hash32, rawSig, signResult,
                 wire, verifyResult, derived>>

\* the call: the chain id is fixed and eth_gasPrice is requested
TxStart(p) ==
  /\ op = "idle"
  /\ tx.pc = "idle"
  /\ tx' = [NoTx EXCEPT
              !.pc = "awaitGasPrice", !.params = p,
              !.chainId = ParseQuantity(
                            Nullish(p.chainId, JsNumber(DefaultChainId))).n]
  /\ rpc' = <<Request("eth_gasPrice", <<>>)>>
  /\ txLog' = <<"eth_gasPrice">>
  /\ UNCHANGED otherVars
  /\ UNCHANGED device
  /\ UNCHANGED <<privKey, pubAttr, op, message, hash32, rawSig, signResult,
                 wire, verifyResult, derived>>

\* variant: the error of eth_gasPrice is noted and the call goes on to the
\* nonce request
TxGasPriceAnswer_errorNoted(ans) ==
  /\ tx.pc = "awaitGasPrice"
  /\ rpc # <<>> /\ Head(rpc).method = "eth_gasPrice"
  /\ tx' = [tx EXCEPT !.pc = "awaitNonce",
                      !.error = IF ans.error
                                THEN "RPC error fetching gas price" ELSE "",
                      !.gasPriceWei = ParseQuantity(JsString(ans.result)).n]
  /\ rpc' = Tail(rpc)
            \o <<Request("eth_getTransactionCount",
                         <<JsonParam(tx.params.from), <<"latest">> >>)>>
  /\ txLog' = txLog \o <<"answer", "eth_getTransactionCount">>
  /\ UNCHANGED otherVars
  /\ UNCHANGED device
  /\ UNCHANGED <<privKey, pubAttr, op, message, hash32, rawSig, signResult,
                 wire, verifyResult, derived>>

\* eth_gasPrice has answered: an error is thrown, a result is converted and
\* eth_getTransactionCount is requested for params.from
TxGasPriceAnswer(ans) ==
  /\ tx.pc = "awaitGasPrice"
  /\ rpc # <<>> /\ Head(rpc).method = "eth_gasPrice"
  /\ LET price == ParseQuantity(JsString(ans.result))
     IN IF ans.error
        THEN /\ tx' = TxThrew(tx, "RPC error fetching gas price")
             /\ rpc' = Tail(rpc)
             /\ txLog' = txLog \o <<"answer">>
        ELSE IF ~price.ok
        THEN /\ tx' = TxThrew(tx, "SyntaxError: Cannot convert to a BigInt")
             /\ rpc' = Tail(rpc)
             /\ txLog' = txLog \o <<"answer">>
        ELSE /\ tx' = [tx EXCEPT !.pc = "awaitNonce",
                                 !.gasPriceWei = price.n]
             /\ rpc' = Tail(rpc)
                       \o <<Request("eth_getTransactionCount",
                                    <<JsonParam(tx.params.from),
                                      <<"latest">> >>)>>
             /\ txLog' = txLog \o <<"answer", "eth_getTransactionCount">>
  /\ UNCHANGED otherVars
  /\ UNCHANGED device
  /\ UNCHANGED <<privKey, pubAttr, op, message, hash32, rawSig, signResult,
                 wire, verifyResult, derived>>

\* eth_getTransactionCount has answered: an error is thrown, a result is
\* parsed, the fields are converted and the tuple is encoded and hashed
TxNonceAnswer(ans) ==
  /\ tx.pc = "awaitNonce"
  /\ rpc # <<>> /\ Head(rpc).method = "eth_getTransactionCount"
  /\ rpc' = Tail(rpc)
  /\ LET nonce == ParseQuantity(JsString(ans.result))
         unsignedForSig == UnsignedTuple(nonce.n, tx.gasPriceWei, tx.params,
                                         tx.chainId)
         rlpUnsigned == RlpOfBuffers(unsignedForSig)
     IN IF ans.error
        THEN /\ tx' = TxThrew(tx, "RPC error fetching nonce")
             /\ txLog' = txLog \o <<"answer">>
        ELSE IF ~nonce.ok
        THEN /\ tx' = TxThrew(tx, "RangeError: NaN cannot be converted to a BigInt")
             /\ txLog' = txLog \o <<"answer">>
        ELSE /\ tx' = [tx EXCEPT !.pc = "hashed", !.nonce = nonce.n,
                                 !.unsignedForSig = unsignedForSig,
                                 !.msgHash = keccak256Hash(rlpUnsigned)]
             /\ txLog' = txLog \o <<"answer", "hash">>
  /\ UNCHANGED otherVars
  /\ UNCHANGED device
  /\ UNCHANGED <<privKey, pubAttr, op, message, hash32, rawSig, signResult,
                 wire, verifyResult, derived>>

\* signHashWithHsmAndComputeV: the device signs msgHash with nonce k and the
\* recovery id is resolved; what it throws ends the call
TxSign(k) ==
  /\ tx.pc = "hashed"
  /\ HsmNonceOk(privKey, k, tx.msgHash)
  /\ LET sig == HsmSign(privKey, k, tx.msgHash)
         res == signHashWithHsmAndComputeV(sig, pubAttr, tx.msgHash)
     IN IF res.status = "ok"
        THEN tx' = [tx EXCEPT !.pc = "deviceSigned", !.sig = sig,
                              !.signed = res]
        ELSE tx' = [TxThrew(tx, res.error) EXCEPT !.sig = sig, !.signed = res]
  /\ txLog' = txLog \o <<"sign">>
  /\ UNCHANGED rpc
  /\ UNCHANGED otherVars
  /\ device' = [signs |-> 1,
                tries |-> ResolverTries(HsmSign(privKey, k, tx.msgHash),
                                        pubAttr, tx.msgHash)]
  /\ UNCHANGED <<privKey, pubAttr, op, message, hash32, rawSig, signResult,
                 wire, verifyResult, derived>>

\* variant: the error of the device is caught and the call goes on
TxSignRaises_swallowed(e) ==
  /\ tx.pc = "hashed"
  /\ tx' = [tx EXCEPT !.pc = "deviceSigned",
                      !.signed = SignValue("error", e, <<>>, <<>>, 0,
                                           <<>>, <<>>, <<>>)]
  /\ txLog' = txLog \o <<"sign raised">>
  /\ UNCHANGED rpc
  /\ UNCHANGED otherVars
  /\ device' = [signs |-> 1, tries |-> <<>>]
  /\ UNCHANGED <<privKey, pubAttr, op, message, hash32, rawSig, signResult,
                 wire, verifyResult, derived>>

\* sign.once raises e: nothing catches it, the call ends with e
TxSignRaises(e) ==
  /\ tx.pc = "hashed"
  /\ tx' = [TxThrew(tx, e) EXCEPT !.signed = SignError(e)]
  /\ txLog' = txLog \o <<"sign raised">>
  /\ UNCHANGED rpc
  /\ UNCHANGED otherVars
  /\ device' = [signs |-> 1, tries |-> <<>>]
  /\ UNCHANGED <<privKey, pubAttr, op, message, hash32, rawSig, signResult,
                 wire, verifyResult, derived>>

\* vFinal, the array signed, rawTxHex, and the eth_sendRawTransaction request
TxSend ==
  /\ tx.pc = "deviceSigned"
  /\ LET vFinal == Eip155V(tx.chainId, tx.signed.v)
         signed == SignedTuple(tx.unsignedForSig, vFinal, tx.signed.r,
                               tx.signed.s)
         rawTxHex == Str0x(BufToHex(RlpOfBuffers(signed)))
     IN /\ tx' = [tx EXCEPT !.pc = "awaitBroadcast", !.vFinal = vFinal,
                            !.signedTx = signed, !.rawTxHex = rawTxHex]
        /\ rpc' = rpc \o <<Request("eth_sendRawTransaction", <<rawTxHex>>)>>
  /\ txLog' = txLog \o <<"encode", "eth_sendRawTransaction">>
  /\ UNCHANGED otherVars
  /\ UNCHANGED device
  /\ UNCHANGED <<privKey, pubAttr, op, message, hash32, rawSig, signResult,
                 wire, verifyResult, derived>>

\* eth_sendRawTransaction has answered: an error is thrown, a result returned
TxBroadcastAnswer(ans) ==
  /\ tx.pc = "awaitBroadcast"
  /\ rpc # <<>> /\ Head(rpc).method = "eth_sendRawTransaction"
  /\ rpc' = Tail(rpc)
  /\ tx' = IF ans.error THEN TxThrew(tx, "RPC error")
           ELSE [tx EXCEPT !.pc = "returned", !.result = ans.result]
  /\ txLog' = txLog \o <<"answer">>
  /\ UNCHANGED otherVars
  /\ UNCHANGED device
  /\ UNCHANGED <<privKey, pubAttr, op, message, hash32, rawSig, signResult,
                 wire, verifyResult, derived>>

\* the call has ended; the service waits for the next request
TxRelease ==
  /\ tx.pc \in {"threw", "returned"}
  /\ tx' = NoTx
  /\ rpc' = <<>>
  /\ txLog' = <<>>
  /\ UNCHANGED otherVars
  /\ device' = NoDevice
  /\ UNCHANGED <<privKey, pubAttr, op, message, hash32, rawSig, signResult,
                 wire, verifyResult, derived>>

NextTx ==
  \/ \E p \in TxParams : TxStart(p)
  \/ \E ans \in GasPriceAnswers : TxGasPriceAnswer(ans)
  \/ \E ans \in NonceAnswers : TxNonceAnswer(ans)
  \/ \E k \in Nonces : TxSign(k)
  \/ \E e \in DeviceErrors : TxSignRaises(e)
  \/ TxSend
  \/ \E ans \in BroadcastAnswers(tx.rawTxHex) : TxBroadcastAnswer(ans)
  \/ TxRelease

SpecTx == Init /\ [][NextTx]_vars

\* ------------------------------------------------------------------------
\* The key operations on arbitrary reported points
\* ------------------------------------------------------------------------

\* tags, length bytes and markers a reported point is built from: the right
\* ones (4, 1 + 2 * CoordLen, 4) and wrong ones
PointTags == {4, 3}

PointLengths == {0, 2 * CoordLen, 1 + 2 * CoordLen, 2 + 2 * CoordLen}

PointMarkers == {4, 2}

\* what follows the length byte: the marker and the coordinates of q, cut
\* short or followed by one more byte
PointContents(q) ==
  {<<>>}
  \cup {Slice(<<m>> \o PointBytes(q) \o <<9>>, 0, n) :
          m \in PointMarkers, n \in 1..(2 + 2 * CoordLen)}

\* buffers a key object may report as its pointEC attribute
EcPointInputs ==
  {<<>>, <<4>>}
  \cup {<<t, l>> \o c : t \in PointTags, l \in PointLengths,
                        c \in UNION {PointContents(q) : q \in 1..MaxKey}}

\* digest signed when the key operations are run on reported points
PointHashInputs == {<<0, 5>>}

InitPoints ==
  /\ privKey \in 1..MaxKey
  /\ pubAttr \in EcPointInputs
  /\ op = "idle"
  /\ message = <<>>
  /\ hash32 = <<>>
  /\ rawSig = <<>>
  /\ signResult = NoSignature
  /\ wire = NoWire
  /\ verifyResult = NoVerify
  /\ derived = NoDerived
  /\ tx = NoTx
  /\ rpc = <<>>
  /\ txLog = <<>>
  /\ codec = NoCodec
  /\ device = NoDevice
  /\ safe = NoSafe
  /\ calls = NoCalls
  /\ chain = NoChain

NextPoints ==
  \/ DeriveAddress
  \/ \E h \in PointHashInputs, k \in Nonces : SignHash(h, k)
  \/ Release

SpecPoints == InitPoints /\ [][NextPoints]_vars

\* ------------------------------------------------------------------------
\* The byte codec and the RLP encoder on their own
\* ------------------------------------------------------------------------

\* integers handed to the number branch: -MaxCodecInt .. MaxCodecInt and
\* some larger ones
MaxCodecInt == 260

CodecInts ==
  (-MaxCodecInt..MaxCodecInt) \cup {65535, 65536, 16777215, 16777216}

\* a buffer of n bytes
Fill(n) == [i \in 1..n |-> 1 + (i % 200)]

\* byte values short strings are made of
RlpByteValues == {0, 127, 128}

\* longest short string
MaxRlpStr == 2

\* lengths of the long strings: around the 56-byte and the 256-byte limits
RlpLongLengths == {53, 54, 55, 56, 57, 255, 256}

RlpShortStrings == UNION {[1..n -> RlpByteValues] : n \in 0..MaxRlpStr}

RlpStrings ==
  {JsBuffer(b) : b \in RlpShortStrings}
  \cup {JsBuffer(Fill(n)) : n \in RlpLongLengths}

\* lists of byte-strings
RlpFlatLists ==
  {JsArray(<<>>)}
  \cup {JsArray(<<a>>) : a \in RlpStrings}
  \cup {JsArray(<<a, b>>) : a \in RlpStrings,
                             b \in {JsBuffer(<<>>), JsBuffer(<<128>>),
                                    JsBuffer(Fill(55))}}

\* lists that hold lists
RlpNestedLists ==
  LET inner == {JsArray(<<>>), JsArray(<<JsBuffer(<<127>>)>>),
                JsArray(<<JsBuffer(Fill(53))>>),
                JsArray(<<JsBuffer(Fill(54))>>),
                JsArray(<<JsArray(<<>>)>>)}
  IN {JsArray(<<a>>) : a \in inner}
     \cup {JsArray(<<a, b>>) : a \in inner,
                                b \in inner \cup {JsBuffer(<<0>>)}}

RlpInputs == RlpStrings \cup RlpFlatLists \cup RlpNestedLists

InitCodec ==
  /\ privKey = 1
  /\ pubAttr = PointECAttribute(1)
  /\ op = "idle"
  /\ message = <<>>
  /\ hash32 = <<>>
  /\ rawSig = <<>>
  /\ signResult = NoSignature
  /\ wire = NoWire
  /\ verifyResult = NoVerify
  /\ derived = NoDerived
  /\ tx = NoTx
  /\ rpc = <<>>
  /\ txLog = <<>>
  /\ codec = NoCodec
  /\ device = NoDevice
  /\ safe = NoSafe
  /\ calls = NoCalls
  /\ chain = NoChain

\* toBufferFromHexOrNumber(n) for a number or bigint n
ToMinimalBytes(n) ==
  /\ codec.fn = "none"
  /\ codec' = [fn |-> "toBufferFromHexOrNumber", input |-> JsNumber(n),
               out |-> toBufferFromHexOrNumber(JsNumber(n))]
  /\ UNCHANGED <<sigVars, txVars, device, safe, calls, chain>>

\* rlpEncode(value) for a buffer or an array
EncodeRlp(value) ==
  /\ codec.fn = "none"
  /\ codec' = [fn |-> "rlpEncode", input |-> value, out |-> rlpEncode(value)]
  /\ UNCHANGED <<sigVars, txVars, device, safe, calls, chain>>

\* the helper has returned
CodecRelease ==
  /\ codec.fn # "none"
  /\ codec' = NoCodec
  /\ UNCHANGED <<sigVars, txVars, device, safe, calls, chain>>

NextCodec ==
  \/ \E n \in CodecInts : ToMinimalBytes(n)
  \/ \E value \in RlpInputs : EncodeRlp(value)
  \/ CodecRelease

SpecCodec == InitCodec /\ [][NextCodec]_vars

\* ------------------------------------------------------------------------
\* SafeTransactionConfirmer.confirmTransaction(safeTxHash, hsmSigner),
\* safe-transaction-confirm.js, with the signer of test-safe-integration.js
\* ------------------------------------------------------------------------

\* most confirmations a fetched transaction carries
MaxConfirmations == 2

\* largest confirmationsRequired of a fetched transaction
MaxRequired == 2

\* the key pairs getEthereumKeyPair finds on the device: the address derived
\* from key 1 has digits only, the one derived from key 3 has a letter
SafeKeys == {1, 3}

\* the safeTxHash strings passed in
SafeTxHashes == {m \in Messages : Len(m) = MaxMsgLen}

\* owners the service reports: the signer as derived (lower case), the
\* signer in upper-case hex digits as a checksummed address has them, and
\* another owner
SafeOwners ==
  {SignerAddress,
   Str0x(ToUpperCase(Slice(SignerAddress, 2, Len(SignerAddress)))),
   Str0x(<<"0", "0">>)}

\* what apiKit.getTransaction resolves to
SafeTransactions ==
  {[found |-> TRUE, isExecuted |-> e, hasConfirmations |-> TRUE,
    confirmations |-> c, confirmationsRequired |-> n] :
     e \in BOOLEAN, c \in SeqsUpTo(SafeOwners, MaxConfirmations),
     n \in 1..MaxRequired}
  \cup
  {[found |-> TRUE, isExecuted |-> e, hasConfirmations |-> FALSE,
    confirmations |-> <<>>, confirmationsRequired |-> n] :
     e \in BOOLEAN, n \in 1..MaxRequired}

\* errors the Safe Transaction Service answers with
SafeApiErrors == {"Not Found", "Unprocessable Content"}

\* the string literal handed to apiKit.confirmTransaction: r, s and v in
\* hex, without the 0x prefix (first byte of r, first byte of s, v)
HardcodedSignature == <<"9", "2", "5", "6", "0", "0">>

\* variant: the owners are compared as they are
canConfirmTransaction_caseSensitive(transaction, signerAddress) ==
  IF transaction.isExecuted
  THEN [canConfirm |-> FALSE, reasons |-> <<"Transaction is already executed">>]
  ELSE IF ~transaction.hasConfirmations
  THEN [canConfirm |-> FALSE, reasons |-> <<"No confirmations found">>]
  ELSE IF \E i \in 1..Len(transaction.confirmations) :
            transaction.confirmations[i] = signerAddress
  THEN [canConfirm |-> FALSE,
        reasons |-> <<"Signer has already confirmed this transaction">>]
  ELSE IF Len(transaction.confirmations) >= transaction.confirmationsRequired
  THEN [canConfirm |-> FALSE,
        reasons |-> <<"Transaction already has enough confirmations">>]
  ELSE [canConfirm |-> TRUE, reasons |-> <<>>]

\* canConfirmTransaction(transaction) of a confirmer built for signerAddress
canConfirmTransaction(transaction, signerAddress) ==
  IF transaction.isExecuted
  THEN [canConfirm |-> FALSE, reasons |-> <<"Transaction is already executed">>]
  ELSE IF ~transaction.hasConfirmations
  THEN [canConfirm |-> FALSE, reasons |-> <<"No confirmations found">>]
  ELSE IF \E i \in 1..Len(transaction.confirmations) :
            ToLowerCase(transaction.confirmations[i])
              = ToLowerCase(signerAddress)
  THEN [canConfirm |-> FALSE,
        reasons |-> <<"Signer has already confirmed this transaction">>]
  ELSE IF Len(transaction.confirmations) >= transaction.confirmationsRequired
  THEN [canConfirm |-> FALSE,
        reasons |-> <<"Transaction already has enough confirmations">>]
  ELSE [canConfirm |-> TRUE, reasons |-> <<>>]

\* the object the outer catch returns
SafeCaught(msg) == [NoSafeResult EXCEPT !.success = FALSE, !.error = msg]

\* the key pair is the device's, the confirmer is built for the address
\* derived from its public key
InitSafe ==
  /\ privKey \in SafeKeys
  /\ pubAttr = PointECAttribute(privKey)
  /\ op = "idle"
  /\ message = <<>>
  /\ hash32 = <<>>
  /\ rawSig = <<>>
  /\ signResult = NoSignature
  /\ wire = NoWire
  /\ verifyResult = NoVerify
  /\ derived = NoDerived
  /\ tx = NoTx
  /\ rpc = <<>>
  /\ txLog = <<>>
  /\ codec = NoCodec
  /\ device = NoDevice
  /\ safe = NoSafe
  /\ calls = NoCalls
  /\ chain = NoChain

\* the call: the transaction is requested from the service
ConfirmStart(h) ==
  /\ safe.pc = "idle"
  /\ safe' = [NoSafe EXCEPT !.pc = "fetching", !.safeTxHash = h]
  /\ UNCHANGED <<sigVars, txVars, codec, device, calls, chain>>

\* apiKit.getTransaction rejects with e: getTransaction rethrows and the
\* outer catch returns
SafeFetchFails(e) ==
  /\ safe.pc = "fetching"
  /\ safe' = [safe EXCEPT !.pc = "returned", !.result = SafeCaught(e)]
  /\ UNCHANGED <<sigVars, txVars, codec, device, calls, chain>>

\* apiKit.getTransaction resolves to nothing: getTransaction throws
SafeFetchedNothing ==
  /\ safe.pc = "fetching"
  /\ safe' = [safe EXCEPT !.pc = "returned",
                          !.result = SafeCaught("Transaction not found")]
  /\ UNCHANGED <<sigVars, txVars, codec, device, calls, chain>>

\* apiKit.getTransaction resolves to t: canConfirmTransaction either returns its
\* reasons or lets the call go on to the signer
SafeFetched(t) ==
  /\ safe.pc = "fetching"
  /\ LET confirmationCheck == canConfirmTransaction(t, SignerAddress)
     IN IF ~confirmationCheck.canConfirm
        THEN safe' = [safe EXCEPT
                        !.pc = "returned", !.transaction = t,
                        !.result = [NoSafeResult EXCEPT
                                      !.success = FALSE,
                                      !.error = "Cannot confirm transaction",
                                      !.hasReasons = TRUE,
                                      !.reasons = confirmationCheck.reasons]]
        ELSE safe' = [safe EXCEPT !.pc = "signing", !.transaction = t]
  /\ UNCHANGED <<sigVars, txVars, codec, device, calls, chain>>

\* hsmSigner.signMessage(safeTxHash): signEthereumMessage with device nonce
\* k, its .signature returned; then the prefix check and the call of
\* apiKit.confirmTransaction with the string literal
SafeSign(k) ==
  /\ safe.pc = "signing"
  /\ HsmNonceOk(privKey, k, PersonalMessageHash(safe.safeTxHash))
  /\ LET sig == HsmSign(privKey, k, PersonalMessageHash(safe.safeTxHash))
         res == signEthereumMessage(sig, pubAttr, safe.safeTxHash)
     IN /\ device' = [signs |-> 1,
                      tries |-> MessageTries(sig, pubAttr, safe.safeTxHash)]
        /\ IF res.status # "ok"
           THEN safe' = [safe EXCEPT
                           !.pc = "returned",
                           !.signLog = Append(@, [message |-> safe.safeTxHash,
                                                  signature |-> <<>>]),
                           !.result = SafeCaught(res.error)]
           ELSE IF ~StartsWith0x(res.signature)
           THEN safe' = [safe EXCEPT
                           !.pc = "returned",
                           !.signLog = Append(@, [message |-> safe.safeTxHash,
                                                  signature |-> res.signature]),
                           !.result = SafeCaught("Signature must be 0x prefixed hex string")]
           ELSE safe' = [safe EXCEPT
                           !.pc = "submitting",
                           !.signLog = Append(@, [message |-> safe.safeTxHash,
                                                  signature |-> res.signature]),
                           !.submitted = Append(@, [safeTxHash |-> safe.safeTxHash,
                                                    signature |-> HardcodedSignature])]
  /\ UNCHANGED <<sigVars, txVars, codec, calls, chain>>

\* sign.once raises e inside the signer: rethrown, caught by the outer catch
SafeSignRaises(e) ==
  /\ safe.pc = "signing"
  /\ device' = [signs |-> 1, tries |-> <<>>]
  /\ safe' = [safe EXCEPT
                !.pc = "returned",
                !.signLog = Append(@, [message |-> safe.safeTxHash,
                                       signature |-> <<>>]),
                !.result = SafeCaught(e)]
  /\ UNCHANGED <<sigVars, txVars, codec, calls, chain>>

\* apiKit.confirmTransaction resolves: the success object is returned with
\* the signature of the signer
SafeSubmitAccepted ==
  /\ safe.pc = "submitting"
  /\ safe' = [safe EXCEPT
                !.pc = "returned",
                !.result = [NoSafeResult EXCEPT
                              !.success = TRUE,
                              !.hasSignature = TRUE,
                              !.signature =
                                 safe.signLog[Len(safe.signLog)].signature]]
  /\ UNCHANGED <<sigVars, txVars, codec, device, calls, chain>>

\* apiKit.confirmTransaction rejects with e: rethrown by the inner catch,
\* caught by the outer one
SafeSubmitRejected(e) ==
  /\ safe.pc = "submitting"
  /\ safe' = [safe EXCEPT !.pc = "returned", !.result = SafeCaught(e)]
  /\ UNCHANGED <<sigVars, txVars, codec, device, calls, chain>>

\* the caller has the result; the confirmer waits for the next call
SafeRelease ==
  /\ safe.pc = "returned"
  /\ safe' = NoSafe
  /\ device' = NoDevice
  /\ UNCHANGED <<sigVars, txVars, codec, calls, chain>>

NextSafe ==
  \/ \E h \in SafeTxHashes : ConfirmStart(h)
  \/ \E e \in SafeApiErrors : SafeFetchFails(e)
  \/ SafeFetchedNothing
  \/ \E t \in SafeTransactions : SafeFetched(t)
  \/ \E k \in Nonces : SafeSign(k)
  \/ \E e \in DeviceErrors : SafeSignRaises(e)
  \/ SafeSubmitAccepted
  \/ \E e \in SafeApiErrors : SafeSubmitRejected(e)
  \/ SafeRelease

SpecSafe == InitSafe /\ [][NextSafe]_vars

\* ------------------------------------------------------------------------
\* Two invocations of signAndSendEtherTransaction for one sender, each
\* running from await to await while the other is suspended
\* ------------------------------------------------------------------------

\* most transactions of the sender that get mined
MaxMined == 1

\* what the callers pass: the same sender, each caller its own recipient
CallParams ==
  [i \in Callers |->
     [from |-> TxSender,
      to |-> JsString(Str0x(IF i = 1 THEN <<"0", "0">> ELSE <<"2", "b">>)),
      valueWei |-> JsString(Str0x(<<"0", "d", "e", "0">>)),
      gasLimit |-> JsString(Str0x(<<"5", "2", "0", "8">>)),
      data |-> JsUndefined, chainId |-> JsNumber(1)]]

\* device nonces of the signatures made for the callers
CallNonces == {1, 2}

InFlight(c) == c.pc \in {"awaitGasPrice", "awaitNonce", "awaitBroadcast"}

\* eth_getTransactionCount(from, 'latest'): the mined transactions only
TransactionCount == RpcResult(Str0x(NumToString16(chain.count)))

CallThrew(c, msg) == [c EXCEPT !.pc = "threw", !.error = msg]

\* the service holds one session and one key pair
InitCalls ==
  /\ privKey = 1
  /\ pubAttr = PointECAttribute(1)
  /\ op = "idle"
  /\ message = <<>>
  /\ hash32 = <<>>
  /\ rawSig = <<>>
  /\ signResult = NoSignature
  /\ wire = NoWire
  /\ verifyResult = NoVerify
  /\ derived = NoDerived
  /\ tx = NoTx
  /\ rpc = <<>>
  /\ txLog = <<>>
  /\ codec = NoCodec
  /\ device = NoDevice
  /\ safe = NoSafe
  /\ calls = NoCalls
  /\ chain = NoChain

\* caller i invokes the function: eth_gasPrice is requested; the
\* invocations in flight at this moment overlap with this one
CallStart(i) ==
  /\ calls[i].pc = "idle"
  /\ calls' = [j \in Callers |->
                 IF j = i
                 THEN [NoCall EXCEPT
                         !.pc = "awaitGasPrice",
                         !.params = CallParams[i],
                         !.with = {o \in Callers \ {i} : InFlight(calls[o])}]
                 ELSE IF InFlight(calls[j])
                 THEN [calls[j] EXCEPT !.with = @ \cup {i}]
                 ELSE calls[j]]
  /\ UNCHANGED <<sigVars, txVars, codec, device, safe, chain>>

\* eth_gasPrice has answered caller i: an error is thrown, a result is
\* converted and eth_getTransactionCount is requested
CallGasPriceAnswer(i, ans) ==
  /\ calls[i].pc = "awaitGasPrice"
  /\ LET price == ParseQuantity(JsString(ans.result))
     IN calls' = [calls EXCEPT ![i] =
                    IF ans.error
                    THEN CallThrew(@, "RPC error fetching gas price")
                    ELSE IF ~price.ok
                    THEN CallThrew(@, "SyntaxError: Cannot convert to a BigInt")
                    ELSE [@ EXCEPT !.pc = "awaitNonce",
                                   !.gasPriceWei = price.n]]
  /\ UNCHANGED <<sigVars, txVars, codec, device, safe, chain>>

\* eth_getTransactionCount has answered caller i with an error
CallNonceError(i) ==
  /\ calls[i].pc = "awaitNonce"
  /\ calls' = [calls EXCEPT ![i] = CallThrew(@, "RPC error fetching nonce")]
  /\ UNCHANGED <<sigVars, txVars, codec, device, safe, chain>>

\* eth_getTransactionCount has answered caller i with the count of the
\* sender: the tuple is built and hashed, the device signs with nonce k, the
\* signed tuple is encoded and eth_sendRawTransaction is requested
CallNonceAnswer(i, k) ==
  /\ calls[i].pc = "awaitNonce"
  /\ LET c == calls[i]
         nonce == ParseQuantity(JsString(TransactionCount.result)).n
         unsignedForSig == UnsignedTuple(nonce, c.gasPriceWei, c.params,
                                         ParseQuantity(c.params.chainId).n)
         msgHash == keccak256Hash(RlpOfBuffers(unsignedForSig))
         sig == HsmSign(privKey, k, msgHash)
         res == signHashWithHsmAndComputeV(sig, pubAttr, msgHash)
         vFinal == Eip155V(ParseQuantity(c.params.chainId).n, res.v)
         signed == SignedTuple(unsignedForSig, vFinal, res.r, res.s)
     IN /\ HsmNonceOk(privKey, k, msgHash)
        /\ device' = [signs |-> 1,
                      tries |-> ResolverTries(sig, pubAttr, msgHash)]
        /\ calls' = [calls EXCEPT ![i] =
                       IF res.status # "ok"
                       THEN CallThrew([@ EXCEPT !.nonce = nonce], res.error)
                       ELSE [@ EXCEPT
                               !.pc = "awaitBroadcast", !.nonce = nonce,
                               !.rawTxHex =
                                  Str0x(BufToHex(RlpOfBuffers(signed)))]]
  /\ UNCHANGED <<sigVars, txVars, codec, safe, chain>>

\* the endpoint accepts the raw transaction of caller i into its pool, in
\* the place of a pending one with the same nonce, and answers with the
\* transaction hash, which the call returns
CallBroadcastAccepted(i) ==
  /\ calls[i].pc = "awaitBroadcast"
  /\ calls' = [calls EXCEPT ![i] =
                 [@ EXCEPT !.pc = "returned",
                           !.result = Str0x(BufToHex(keccak256Hash(
                                        WireBytes(calls[i].rawTxHex))))]]
  /\ chain' = [chain EXCEPT
                 !.pool = {t \in @ : t.nonce # calls[i].nonce}
                          \cup {[nonce |-> calls[i].nonce,
                                  rawTxHex |-> calls[i].rawTxHex]}]
  /\ UNCHANGED <<sigVars, txVars, codec, device, safe>>

\* the endpoint answers the raw transaction of caller i with an error
CallBroadcastRejected(i) ==
  /\ calls[i].pc = "awaitBroadcast"
  /\ calls' = [calls EXCEPT ![i] = CallThrew(@, "RPC error")]
  /\ UNCHANGED <<sigVars, txVars, codec, device, safe, chain>>

\* a pending transaction with the next nonce of the sender is mined; the
\* pending ones with that nonce are dropped with it
Mine ==
  /\ chain.count < MaxMined
  /\ \E t \in chain.pool : t.nonce = chain.count
  /\ chain' = [count |-> chain.count + 1,
               pool |-> {t \in chain.pool : t.nonce # chain.count}]
  /\ UNCHANGED <<sigVars, txVars, codec, device, safe, calls>>

\* the invocation of caller i has ended and is forgotten
CallRelease(i) ==
  /\ calls[i].pc \in {"returned", "threw"}
  /\ calls' = [j \in Callers |->
                 IF j = i THEN NoCall
                 ELSE [calls[j] EXCEPT !.with = @ \ {i}]]
  /\ UNCHANGED <<sigVars, txVars, codec, device, safe, chain>>

NextCalls ==
  \/ \E i \in Callers : CallStart(i)
  \/ \E i \in Callers, ans \in GasPriceAnswers : CallGasPriceAnswer(i, ans)
  \/ \E i \in Callers : CallNonceError(i)
  \/ \E i \in Callers, k \in CallNonces : CallNonceAnswer(i, k)
  \/ \E i \in Callers : CallBroadcastAccepted(i)
  \/ \E i \in Callers : CallBroadcastRejected(i)
  \/ Mine
  \/ \E i \in Callers : CallRelease(i)

SpecCalls == InitCalls /\ [][NextCalls]_vars

\* ------------------------------------------------------------------------
\* Properties
\* ------------------------------------------------------------------------

VerifyOps == {"verifyEthereumSignature", "verifyEthereumSignature_standalone"}

\* the 64-byte key X || Y of the public-key object handed to the signer
ExpectedPubXY == Slice(decodeEcPoint(pubAttr).val, 1, 1 + 2 * CoordLen)

\* the s of the device, as an integer
RawS == BytesToInt(Slice(rawSig, RLen, 2 * RLen))

\* recovery over (hash32, r, s, v) as returned yields the expected key
RecoversExpected(res) ==
  LET rec == ecrecover(hash32, res.v, res.r, res.s)
  IN rec.ok /\ rec.pub = ExpectedPubXY

ResolverReturned ==
  op = "signHashWithHsmAndComputeV" /\ signResult.status = "ok"

\* C1: whenever the recovery resolver returns (r, s, v), recovery over
\* exactly (hash, r, returned s, returned v) yields the expected public key;
\* the returned s is the normalised one the candidates were tried against.
C1_RoundTripRecovery ==
  ResolverReturned =>
    /\ signResult.v \in {0, 1}
    /\ signResult.r = Slice(rawSig, 0, RLen)
    /\ RecoversExpected(signResult)

\* C1 witness: the resolver returned for a device s in the upper half
C1_Witness == ResolverReturned /\ RawS > SECP256K1_N_DIV_2

\* C2: the s returned by the recovery resolver is at most N/2: it is N - s
\* exactly when the device's s exceeds N/2 and the device's s otherwise.
C2_LowS ==
  ResolverReturned =>
    /\ RawS \in 1..(SECP256K1_N - 1)
    /\ Len(signResult.s) = RLen
    /\ BytesToInt(signResult.s) <= SECP256K1_N_DIV_2
    /\ BytesToInt(signResult.s) =
         IF RawS > SECP256K1_N_DIV_2 THEN SECP256K1_N - RawS ELSE RawS

\* C2 witness: a device s in the upper half came back replaced by N - s
C2_Witness ==
  /\ ResolverReturned
  /\ RawS > SECP256K1_N_DIV_2
  /\ BytesToInt(signResult.s) = SECP256K1_N - RawS

MessageSigned == op \in SignOps /\ signResult.status = "ok"

\* C3: every signature returned by personal-message signing
\* (signEthereumMessage of ethereum-hsm.js) has s <= N/2.
C3_MessageLowS ==
  (op = "signEthereumMessage" /\ signResult.status = "ok") =>
    BytesToInt(signResult.s) <= SECP256K1_N_DIV_2

\* C4: a signing operation returns a signature only when one of the
\* candidates 0 and 1 recovers the expected public key from the returned
\* (r, s), and the recovery id it returns is that candidate; otherwise it
\* fails and returns nothing.
C4_NoUnverifiedRecoveryId ==
  (signResult.status = "ok") =>
    \E i \in {0, 1} :
      /\ signResult.v \in {i, i + 27}
      /\ LET rec == ecrecover(hash32, i, signResult.r, signResult.s)
         IN rec.ok /\ rec.pub = ExpectedPubXY

Verified(by) == op \in VerifyOps /\ verifyResult.by = by

\* C5: a signature made by signEthereumMessage, handed unchanged to
\* verifyEthereumSignature with the same message and the address derived
\* from the signer's public key, verifies true.
C5_SignThenVerify ==
  ( /\ Verified("main")
    /\ wire.from = "signEthereumMessage"
    /\ wire.tamper = "none"
    /\ verifyResult.address = SignerAddress )
  => verifyResult.value = TRUE

\* C5 witness: such a verification of a signature with recovery id 1 and a
\* device s in the upper half
C5_Witness ==
  /\ Verified("main")
  /\ wire.from = "signEthereumMessage"
  /\ wire.tamper = "none"
  /\ verifyResult.address = SignerAddress
  /\ signResult.v = 28
  /\ RawS > SECP256K1_N_DIV_2
  /\ message # <<>>

\* C6: with one bit of the signature inverted (here a bit of s or of v),
\* verification of the message against the signer's address returns false,
\* in both verifiers.
C6_BitFlipRejected ==
  ( /\ op \in VerifyOps
    /\ wire.from = "signEthereumMessage"
    /\ wire.tamper = "flip"
    /\ wire.byte > RLen
    /\ verifyResult.address = SignerAddress )
  => verifyResult.value = FALSE

\* C7: the verifiers use the recovery id carried in v, so an untouched
\* signature whose recovery id is 1 verifies true against its signer's
\* address.
C7_RecoveryIdOneVerifies ==
  ( /\ op \in VerifyOps
    /\ wire.from = "signEthereumMessage"
    /\ wire.tamper = "none"
    /\ signResult.v = 28
    /\ verifyResult.address = SignerAddress )
  => verifyResult.value = TRUE

\* the try body of the verification that ran last threw
BodyThrew ==
  IF verifyResult.by = "main"
  THEN VerifyBody(message, wire.sig, verifyResult.address).threw
  ELSE StandaloneVerifyBody(message, wire.sig, verifyResult.address).threw

\* C8: verification never raises and returns a boolean; a failure while
\* parsing or recovering yields false.
C8_VerifyNeverRaises ==
  op \in VerifyOps =>
    /\ verifyResult.raised = FALSE
    /\ verifyResult.value \in BOOLEAN
    /\ BodyThrew => verifyResult.value = FALSE

\* C8 witness: a verification whose try body threw on a string that is not
\* a signature
C8_Witness ==
  /\ op \in VerifyOps
  /\ wire.tamper \in {"nonhex", "no0x", "truncate2", "undefined"}
  /\ BodyThrew
  /\ verifyResult.value = FALSE

\* C9: the string returned by personal-message signing is 0x and the hex of
\* the 65 bytes r (32) || s (32) || v, with v = recovery id + 27, so 27 or 28.
C9_WireForm ==
  MessageSigned =>
    /\ Len(signResult.r) = RLen
    /\ Len(signResult.s) = RLen
    /\ signResult.v \in {27, 28}
    /\ StartsWith0x(signResult.signature)
    /\ Len(signResult.signature) = 2 + 2 * SigLen
    /\ WireBytes(signResult.signature)
         = signResult.r \o signResult.s \o <<signResult.v>>

\* C10: the length token after the prefix is the decimal byte length of the
\* message as hashed (UTF-8).
C10_LengthTokenIsByteLength ==
  op \in SignOps =>
    Utf8Encode(PersonalMessage(message))
      = Utf8Encode(PersonalPrefix)
        \o Utf8Encode(DecimalString(Len(Utf8Encode(message))))
        \o Utf8Encode(message)

\* ------------------------------------------------------------------------
\* Properties of the transaction flow
\* ------------------------------------------------------------------------

\* the call has built the array it broadcasts
TxEncoded == tx.rawTxHex # <<>>

\* the chain id the call works for: the caller's, or Sepolia's
TxChainId ==
  IF tx.params.chainId.t = "undefined" THEN 11155111
  ELSE tx.params.chainId.n

\* C11 as stated: for chainId = 11155111 and recovery id 1 the vFinal of the
\* transaction builder is 22310958.
C11_VFinalIs22310958 ==
  (TxEncoded /\ TxChainId = 11155111 /\ tx.signed.v = 1)
    => tx.vFinal = 22310958

\* C11 amended: for chainId = 11155111 and recovery id 1 the vFinal of the
\* transaction builder is 22310258 (= 11155111 * 2 + 35 + 1).
C11_VFinalIs22310258 ==
  (TxEncoded /\ TxChainId = 11155111 /\ tx.signed.v = 1)
    => tx.vFinal = 22310258

C11_Witness ==
  /\ tx.pc = "awaitBroadcast"
  /\ tx.params.chainId.t = "undefined"
  /\ tx.signed.v = 1

\* C12: for every chain id >= 0 and recovery id in {0, 1}, the v field of the
\* broadcast transaction is chainId * 2 + 35 + recovery id, and decoding it
\* as (v - 35) div 2 and (v - 35) mod 2 gives the chain id and the recovery
\* id back.
C12_VFinalRoundTrip ==
  TxEncoded =>
    LET vField == BytesToInt(tx.signedTx[7])
    IN /\ TxChainId >= 0 /\ tx.signed.v \in {0, 1}
       /\ tx.vFinal = TxChainId * 2 + 35 + tx.signed.v
       /\ vField = tx.vFinal
       /\ (vField - 35) \div 2 = TxChainId
       /\ (vField - 35) % 2 = tx.signed.v

C12_Witness ==
  /\ tx.pc = "returned"
  /\ tx.params.chainId = JsNumber(0)
  /\ tx.signed.v = 0
  /\ tx.signedTx[7] = <<35>>

\* the bytes a caller supplied as a '0x' hex string
SuppliedBytes(value) == BufferFromHex(Slice(value.str, 2, Len(value.str)))

\* the call has converted its fields and hashed them
TxHashed == tx.unsignedForSig # <<>>

\* C13: the to field and the data field are encoded as the exact bytes
\* supplied, no leading zero byte removed: an address that starts with 0x00
\* keeps its full length, data that starts with zero bytes keeps them.
C13_ToAndDataKeepLeadingZeros ==
  TxHashed =>
    /\ tx.params.to.t = "string"
         => /\ tx.unsignedForSig[4] = SuppliedBytes(tx.params.to)
            /\ Len(tx.unsignedForSig[4]) = AddrLen
    /\ tx.params.data.t = "string"
         => tx.unsignedForSig[6] = SuppliedBytes(tx.params.data)

\* b is the shortest big-endian form of n (empty for 0)
IsMinimalBytes(b, n) == BytesToInt(b) = n /\ (b = <<>> \/ b[1] # 0)

RECURSIVE RlpItems(_)
\* the byte-strings of an RLP payload made of strings shorter than 56 bytes
RlpItems(bytes) ==
  IF bytes = <<>> THEN <<>>
  ELSE IF bytes[1] < 128
  THEN <<SubSeq(bytes, 1, 1)>> \o RlpItems(Tail(bytes))
  ELSE IF bytes[1] <= 183 /\ Len(bytes) >= 1 + (bytes[1] - 128)
  THEN <<SubSeq(bytes, 2, 1 + (bytes[1] - 128))>>
       \o RlpItems(SubSeq(bytes, 2 + (bytes[1] - 128), Len(bytes)))
  ELSE << <<-1>> >>

\* the byte-strings of the RLP encoding of a list shorter than 56 bytes
RlpDecodeList(bytes) ==
  IF bytes # <<>> /\ bytes[1] >= 192 /\ bytes[1] <= 247
     /\ Len(bytes) = 1 + (bytes[1] - 192)
  THEN RlpItems(Tail(bytes))
  ELSE << <<-1>> >>

TxStepOrder ==
  <<"eth_gasPrice", "eth_getTransactionCount", "hash", "sign", "encode",
    "eth_sendRawTransaction">>

TxRequests ==
  {"eth_gasPrice", "eth_getTransactionCount", "eth_sendRawTransaction"}

\* the steps taken so far, the answers left out
TxSteps == SelectSeq(txLog, LAMBDA e : e # "answer")

\* C16: the steps of a call come in the order gas-price request, nonce
\* request, signing hash, device sign, final encoding, broadcast request;
\* a request is issued only after the one before it has answered, so at
\* most one is in flight; the broadcast never precedes a successful signing.
C16_StepOrder ==
  /\ Len(TxSteps) <= Len(TxStepOrder)
  /\ \A i \in 1..Len(TxSteps) :
       \/ TxSteps[i] = TxStepOrder[i]
       \/ i = 4 /\ i = Len(TxSteps) /\ TxSteps[i] = "sign raised"
  /\ Len(rpc) <= 1
  /\ \A i \in 1..Len(txLog) :
       (txLog[i] \in TxRequests /\ i > 1) => txLog[i - 1] \notin TxRequests
  /\ \A i \in 1..Len(txLog) :
       txLog[i] = "answer" => (i > 1 /\ txLog[i - 1] \in TxRequests)
  /\ (\E i \in 1..Len(rpc) : rpc[i].method = "eth_sendRawTransaction")
       => (tx.signed.status = "ok" /\ tx.sig # <<>> /\ tx.msgHash # <<>>)
  /\ TxEncoded => tx.signed.status = "ok"
  /\ tx.sig # <<>> => tx.msgHash # <<>>

C16_Witness ==
  /\ tx.pc = "returned"
  /\ txLog = <<"eth_gasPrice", "answer", "eth_getTransactionCount", "answer",
               "hash", "sign", "encode", "eth_sendRawTransaction", "answer">>

\* C17: without the sender address the call fails before a hash is computed,
\* before the device is asked to sign and before a broadcast.
C17_MissingSenderFails ==
  (tx.pc # "idle" /\ tx.params.from.t = "undefined")
    => /\ tx.msgHash = <<>>
       /\ tx.sig = <<>>
       /\ tx.rawTxHex = <<>>
       /\ tx.pc # "returned"

\* C18: without a gas limit the call fails; the absent field is never
\* encoded as zero, hashed and signed.
C18_MissingGasLimitFails ==
  (tx.pc # "idle" /\ tx.params.gasLimit.t = "undefined")
    => /\ tx.msgHash = <<>>
       /\ tx.sig = <<>>
       /\ tx.rawTxHex = <<>>
       /\ tx.pc # "returned"

\* the device raised when it was asked to sign
DeviceRaised == \E i \in 1..Len(txLog) : txLog[i] = "sign raised"

\* C19: when the device raises, the call fails with that same error and
\* requests no broadcast; the failure becomes neither a signature nor a
\* result.
C19_DeviceErrorPropagates ==
  DeviceRaised =>
    /\ tx.pc = "threw"
    /\ tx.signed.error \in DeviceErrors
    /\ tx.error = tx.signed.error
    /\ tx.sig = <<>> /\ tx.signed.r = <<>> /\ tx.signed.s = <<>>
    /\ tx.rawTxHex = <<>> /\ tx.result = <<>>
    /\ rpc = <<>>
    /\ \A i \in 1..Len(txLog) : txLog[i] # "eth_sendRawTransaction"

C19_Witness ==
  /\ DeviceRaised
  /\ tx.pc = "threw"
  /\ tx.error = "CKR_DEVICE_ERROR"
  /\ tx.msgHash # <<>>

\* C20: for a reported EC point whose first byte is not 0x04, decoding fails
\* with the malformed-point error, address derivation returns no address and
\* the signing operations that take the key return no signature.
C20_WrongTagRejected ==
  (pubAttr # <<>> /\ pubAttr[1] # 4) =>
    /\ ~decodeEcPoint(pubAttr).ok
    /\ op \in {"deriveEthereumAddress", "deriveEthereumAddress_part002"}
         => /\ derived.threw
            /\ derived.error = "Expected OCTET STRING"
            /\ derived.address = <<>>
    /\ op \in {"signHashWithHsmAndComputeV", "signEthereumMessage"}
         => /\ signResult.status = "error"
            /\ signResult.error = "Expected OCTET STRING"
            /\ signResult.signature = <<>> /\ signResult.r = <<>>

\* ------------------------------------------------------------------------
\* Properties of the point decoder
\* ------------------------------------------------------------------------

\* the outer tag of the reported point is the OCTET STRING tag
OuterTagOk == pubAttr # <<>> /\ pubAttr[1] = 4

\* the first content byte, as the length byte delimits the content, is the
\* uncompressed-point marker
InnerMarkerOk ==
  LET content == Slice(pubAttr, 2, 2 + (IF Len(pubAttr) >= 2 THEN pubAttr[2]
                                        ELSE 0))
  IN content # <<>> /\ content[1] = 4

\* C21: when the outer tag is right and the first content byte is not 0x04
\* the point is rejected with the unsupported-compression error; the outer
\* tag is tested first, so a buffer that fails both tests reports the
\* malformed-point error.
C21_MarkerCheckedAfterTag ==
  /\ (op = "deriveEthereumAddress" /\ OuterTagOk /\ ~InnerMarkerOk)
       => /\ derived.threw
          /\ derived.error = "Only uncompressed EC points are supported"
          /\ derived.address = <<>>
  /\ (op = "deriveEthereumAddress" /\ ~OuterTagOk)
       => /\ derived.threw
          /\ derived.error = "Expected OCTET STRING"
  /\ (op = "signHashWithHsmAndComputeV" /\ OuterTagOk /\ ~InnerMarkerOk)
       => /\ signResult.status = "error"
          /\ signResult.error =
               "Only uncompressed EC points are supported from the HSM public key."
  /\ (op = "signHashWithHsmAndComputeV" /\ ~OuterTagOk)
       => /\ signResult.status = "error"
          /\ signResult.error = "Expected OCTET STRING"

C21_Witness ==
  /\ op = "deriveEthereumAddress"
  /\ Len(pubAttr) = 3 + 2 * CoordLen
  /\ pubAttr[1] = 3 /\ pubAttr[3] = 2
  /\ derived.error = "Expected OCTET STRING"

\* the key bytes a successful derivation hashed
DecodedKeyBytes ==
  LET rawPoint == decodeEcPoint(pubAttr).val
  IN Slice(rawPoint, 1, Len(rawPoint))

\* C22: every point the decoder returns without error is exactly the two
\* coordinates (64 bytes), whatever the length byte says and however short
\* the buffer is.
C22_DecodedPointIs64Bytes ==
  (op = "deriveEthereumAddress" /\ ~derived.threw)
    => Len(DecodedKeyBytes) = 2 * CoordLen

\* ------------------------------------------------------------------------
\* Properties of the byte codec and of the RLP encoder
\* ------------------------------------------------------------------------

MinimalCalled == codec.fn = "toBufferFromHexOrNumber"

\* C23: for n >= 0 the bytes returned are the shortest big-endian form of
\* n: none for zero, otherwise a non-zero first byte and the value n.
C23_MinimalBytes ==
  (MinimalCalled /\ codec.input.n >= 0) =>
    /\ ~codec.out.threw
    /\ codec.input.n = 0 => codec.out.buf = <<>>
    /\ codec.input.n > 0 => (codec.out.buf # <<>> /\ codec.out.buf[1] # 0)
    /\ \A i \in 1..Len(codec.out.buf) : codec.out.buf[i] \in 0..255
    /\ BytesToInt(codec.out.buf) = codec.input.n

C23_Witness ==
  /\ MinimalCalled
  /\ codec.input.n = 256
  /\ codec.out.buf = <<1, 0>>

\* C24: for a negative integer the conversion fails and returns no bytes.
C24_NegativeRejected ==
  (MinimalCalled /\ codec.input.n < 0) => codec.out.threw

\* the minimal big-endian bytes of a length below 65536
RlpLengthBytes(n) == IF n < 256 THEN <<n>> ELSE <<n \div 256, n % 256>>

\* the prefix the RLP rules give a payload of n bytes: base + n below 56
\* bytes, else base + 55 + the number of length bytes, and the length
RlpPrefix(base, n) ==
  IF n < 56 THEN <<base + n>>
  ELSE <<base + 55 + Len(RlpLengthBytes(n))>> \o RlpLengthBytes(n)

RECURSIVE RlpRule(_)
\* the encoding the RLP rules prescribe for a byte-string or a list
RlpRule(value) ==
  IF value.t = "buffer"
  THEN IF Len(value.buf) = 1 /\ value.buf[1] < 128 THEN value.buf
       ELSE RlpPrefix(128, Len(value.buf)) \o value.buf
  ELSE LET payload == BufferConcat([i \in 1..Len(value.items) |->
                                      RlpRule(value.items[i])])
       IN RlpPrefix(192, Len(payload)) \o payload

\* C25: for every byte-string and nested list, encode returns what the RLP
\* rules prescribe: a single byte below 0x80 is itself, a string of length
\* L gets 0x80 + L below 56 and 0xb7 + length-of-length and the length
\* otherwise, a list with payload P gets 0xc0 + P below 56 and 0xf7 +
\* length-of-length and the length otherwise.
C25_RlpRules ==
  codec.fn = "rlpEncode" =>
    /\ ~codec.out.threw
    /\ codec.out.buf = RlpRule(codec.input)

C25_Witness ==
  /\ codec.fn = "rlpEncode"
  /\ codec.input = JsArray(<<JsBuffer(Fill(55))>>)
  /\ SubSeq(codec.out.buf, 1, 4) = <<248, 56, 183, 2>>
  /\ Len(codec.out.buf) = 58


\* ------------------------------------------------------------------------
\* Properties of the signing loop
\* ------------------------------------------------------------------------

ResolverOps == {"signHashWithHsmAndComputeV", "signEthereumMessage"}

\* the hash, r, s and key the candidates of the finished operation were
\* checked against
TriedHash ==
  IF op = "signEthereumMessage" THEN PersonalMessageHash(message) ELSE hash32

TriedS ==
  IF op = "signEthereumMessage" THEN Slice(rawSig, RLen, 2 * RLen)
  ELSE NormalizeS(Slice(rawSig, RLen, 2 * RLen))

CandidateMatches(i) ==
  LET rec == ecrecover(TriedHash, i, Slice(rawSig, 0, RLen), TriedS)
  IN rec.ok /\ rec.pub = Slice(pubAttr, 3, Len(pubAttr))

GasPriceFailed == tx.error = "RPC error fetching gas price"

NonceFailed == tx.error = "RPC error fetching nonce"

\* C29: once the gas-price request or the nonce request has answered with an
\* RPC error the call has ended with that error: the answer is the last
\* step, no request is in flight or was issued after it, the device has not
\* been asked to sign and nothing was encoded or broadcast.
C29_LookupErrorStopsCall ==
  (GasPriceFailed \/ NonceFailed) =>
    /\ tx.pc = "threw"
    /\ rpc = <<>>
    /\ GasPriceFailed => txLog = <<"eth_gasPrice", "answer">>
    /\ NonceFailed => txLog = <<"eth_gasPrice", "answer",
                                "eth_getTransactionCount", "answer">>
    /\ device.signs = 0
    /\ tx.sig = <<>> /\ tx.signed = NoSignature
    /\ tx.msgHash = <<>>
    /\ tx.rawTxHex = <<>> /\ tx.result = <<>>

\* C29 witness: the gas price was answered, the nonce request answered with
\* an error and the call ended there
C29_Witness ==
  /\ NonceFailed
  /\ tx.pc = "threw"
  /\ tx.gasPriceWei > 0


\* ------------------------------------------------------------------------
\* Properties of the Safe confirmer
\* ------------------------------------------------------------------------

\* C26: every signature handed to the Safe Transaction Service for a
\* safeTxHash is the signature the signer returned for that safeTxHash, and
\* a successful result reports that same signature.
C26_SubmittedIsSignersSignature ==
  \A i \in 1..Len(safe.submitted) :
    /\ safe.submitted[i].safeTxHash = safe.safeTxHash
    /\ \E j \in 1..Len(safe.signLog) :
         /\ safe.signLog[j].message = safe.submitted[i].safeTxHash
         /\ safe.signLog[j].signature = safe.submitted[i].signature
    /\ (safe.pc = "returned" /\ safe.result.success) =>
         safe.result.signature = safe.submitted[i].signature

\* the four conditions on the fetched transaction, for a signer address
Confirmable(t, signerAddress) ==
  /\ ~t.isExecuted
  /\ t.hasConfirmations
  /\ ~\E i \in 1..Len(t.confirmations) :
        ToUpperCase(t.confirmations[i]) = ToUpperCase(signerAddress)
  /\ Len(t.confirmations) < t.confirmationsRequired

\* C27: the signer is asked and a confirmation is submitted only for a
\* fetched transaction that is not executed, has a confirmations list, has
\* no confirmation by the signer address (case ignored) and has fewer
\* confirmations than required; for any other fetched transaction the call
\* returns success=false with exactly one reason, nothing signed, nothing
\* submitted.
C27_SignsOnlyConfirmable ==
  /\ (safe.signLog # <<>> \/ safe.submitted # <<>> \/ device.signs > 0) =>
       (safe.transaction.found
        /\ Confirmable(safe.transaction, SignerAddress))
  /\ (safe.transaction.found
      /\ ~Confirmable(safe.transaction, SignerAddress)) =>
       /\ safe.pc = "returned"
       /\ ~safe.result.success
       /\ safe.result.hasReasons
       /\ Len(safe.result.reasons) = 1
       /\ safe.signLog = <<>>
       /\ safe.submitted = <<>>
       /\ device.signs = 0

\* C27 witness: the only confirmation is the signer's own address in upper
\* case and one more is required; the call returned its one reason
C27_Witness ==
  /\ safe.pc = "returned"
  /\ safe.transaction.found
  /\ ~safe.transaction.isExecuted
  /\ Len(safe.transaction.confirmations) = 1
  /\ safe.transaction.confirmations[1] # SignerAddress
  /\ ToLowerCase(safe.transaction.confirmations[1]) = SignerAddress
  /\ safe.transaction.confirmationsRequired = 2
  /\ safe.result.reasons = <<"Signer has already confirmed this transaction">>


\* ------------------------------------------------------------------------
\* Properties of overlapping invocations
\* ------------------------------------------------------------------------

\* the nonce field of a raw transaction
NonceOf(rawTxHex) == BytesToInt(RlpDecodeList(WireBytes(rawTxHex))[1])

\* the invocation has issued eth_sendRawTransaction
Broadcast(c) == c.rawTxHex # <<>>

\* C30: two invocations for the same sender that overlap in time never
\* both broadcast a transaction carrying the same nonce.
C30_OverlappingCallsDistinctNonces ==
  \A i \in Callers, j \in Callers :
    ( /\ i # j
      /\ j \in calls[i].with
      /\ Broadcast(calls[i]) /\ Broadcast(calls[j])
      /\ calls[i].params.from = calls[j].params.from )
    => NonceOf(calls[i].rawTxHex) # NonceOf(calls[j].rawTxHex)

====
